---------------------------- MODULE Spec2Model ----------------------------
(***************************************************************************)
(* A model of the technical-interview analyzer:                            *)
(*   - transcript_analyzer.analyze_transcript, the rubric scorer;          *)
(*   - sentiment_analyzer.analyze_sentiment / summarize_sentiment, the     *)
(*     per-role sentiment aggregator.                                      *)
(* Python values are tagged records, so that a comparison between values   *)
(* of different Python types is defined (and false) as it is in Python.    *)
(***************************************************************************)
EXTENDS Integers, Sequences, FiniteSets, TLC

VARIABLES
    file,               \* the transcript file handed to the function under analysis
    \* analyze_transcript
    pc,                 \* position inside analyze_transcript
    transcript_data,    \* json.load(f)
    dialogue_entries,   \* the value iterated by the for loop of line 20
    entry_index,        \* number of iterations of that loop already done
    transcript_text,    \* the concatenated dialogue text
    counts,             \* the keyword counts (the *_count locals)
    scores,             \* criterion -> score
    assessment,         \* criterion -> assessment note
    pass_fail,          \* "Pass" / "Fail"
    result,             \* what analyze_transcript returned (PyNone until it returns)
    raised,             \* the exception that left analyze_transcript, "" when none
    \* analyze_sentiment and summarize_sentiment
    s_pc,                   \* position inside analyze_sentiment / its caller
    data,                   \* json.load(f)
    candidate_name,         \* interview_data.get('candidate', 'Candidate')
    interviewer_name,       \* interview_data.get('interviewer', 'Interviewer')
    turn_index,             \* number of turns the loop of line 68 has visited
    candidate_utterances,
    interviewer_utterances,
    candidate_sentiment,    \* calculate_average_sentiment(candidate_utterances)
    interviewer_sentiment,  \* calculate_average_sentiment(interviewer_utterances)
    sentiment_results,      \* what analyze_sentiment returned
    sentiment_summary,      \* what summarize_sentiment returned
    s_raised,               \* the exception that left either function, "" when none
    printed,                \* the lines analyze_sentiment printed, in order
    \* the callers: the batch pipelines, the summary writer and the synthesis
    p_pc,               \* position inside the caller, "idle" when there is none
    directory,          \* os.listdir(transcripts_dir), as directory entries
    transcript_files,   \* the entries the batch loop iterates
    file_no,            \* number of entries that loop has taken
    results,            \* the rows collected so far
    written,            \* the rows written to the CSV file, PyNone while unwritten
    p_raised,           \* the exception that left the caller, "" when none
    analysis_file,      \* the JSON document written to analysis_output.json
    sentiment_file,     \* the JSON document written to sentiment_summary.json
    synthesis           \* the JSON document the synthesis step wrote

\* The variables of analyze_transcript.
rvars == <<pc, transcript_data, dialogue_entries, entry_index, transcript_text,
           counts, scores, assessment, pass_fail, result, raised>>

\* The variables of analyze_sentiment and summarize_sentiment.
svars == <<s_pc, data, candidate_name, interviewer_name, turn_index,
           candidate_utterances, interviewer_utterances, candidate_sentiment,
           interviewer_sentiment, sentiment_results, sentiment_summary, s_raised,
           printed>>

\* The variables of the callers.
pvars == <<p_pc, directory, transcript_files, file_no, results, written,
           p_raised, analysis_file, sentiment_file, synthesis>>

vars == <<file, rvars, svars, pvars>>

-----------------------------------------------------------------------------
(* Bounds of the model *)

\* Longest transcript array the inputs are drawn from.
MaxTurns == 2

-----------------------------------------------------------------------------
(* Python values *)

PyNone == [type |-> "NoneType"]
PyInt(n) == [type |-> "int", n |-> n]
PyStr(s) == [type |-> "str", s |-> s]
PyList(l) == [type |-> "list", items |-> l]
PyDict(m) == [type |-> "dict", map |-> m]

EmptyMap == [k \in {} |-> PyNone]

\* dict.get(key, default)
DictGet(d, key, default) ==
    IF key \in DOMAIN d.map THEN d.map[key] ELSE default

\* Python truthiness of a value (None, 0, "", [], {} are false).
Truthy(v) ==
    CASE v.type = "NoneType" -> FALSE
      [] v.type = "int" -> v.n # 0
      [] v.type = "str" -> v.s # ""
      [] v.type = "list" -> v.items # <<>>
      [] v.type = "dict" -> DOMAIN v.map # {}

-----------------------------------------------------------------------------
(* Strings: str.lower() and the `in` substring test *)

\* The lower-case letter of every upper-case letter.
LowerOf ==
    [A |-> "a", B |-> "b", C |-> "c", D |-> "d", E |-> "e", F |-> "f",
     G |-> "g", H |-> "h", I |-> "i", J |-> "j", K |-> "k", L |-> "l",
     M |-> "m", N |-> "n", O |-> "o", P |-> "p", Q |-> "q", R |-> "r",
     S |-> "s", T |-> "t", U |-> "u", V |-> "v", W |-> "w", X |-> "x",
     Y |-> "y", Z |-> "z"]

\* One character (a string of length 1) lower-cased.
LowerChar(c) == IF c \in DOMAIN LowerOf THEN LowerOf[c] ELSE c

\* The characters i..j of s, each lower-cased (halving keeps the evaluation
\* shallow on long texts).
RECURSIVE LowerRange(_, _, _)
LowerRange(s, i, j) ==
    IF i > j THEN ""
    ELSE IF i = j THEN LowerChar(SubSeq(s, i, i))
    ELSE LET mid == (i + j) \div 2
         IN  LowerRange(s, i, mid) \o LowerRange(s, mid + 1, j)

\* Faulty variant of Lower: the text is matched as written (case-sensitive).
Lower_Identity(s) == s

\* s.lower(), s being taken once.
Lower(s) == CHOOSE r \in {LowerRange(t, 1, Len(t)) : t \in {s}} : TRUE

\* k in s : k occurs in s as a contiguous substring
Contains(s, k) ==
    \E t \in {s}, u \in {k} :
        \E i \in 1..(Len(t) - Len(u) + 1) : SubSeq(t, i, i + Len(u) - 1) = u

-----------------------------------------------------------------------------
(* The rubric's keyword lists (transcript_analyzer.py) *)

clarifying_questions_keywords ==
    <<"clarify", "understand", "so if", "just to confirm",
      "could you explain">>

hints_incorporation_keywords ==
    <<"based on your hint", "you mentioned", "following your suggestion">>

assumption_keywords ==
    <<"what if", "edge case", "handle", "consider", "input", "null", "empty",
      "size", "range", "boundary", "negative", "invalid">>

example_keywords ==
    <<"for example", "e.g.", "imagine if", "let's say", "input", "output",
      "result", "so if we give", "then we should get">>

approach_keywords ==
    <<"approach", "strategy", "method", "way", "alternatively", "instead",
      "brute force", "efficient", "optimize", "different way">>

complexity_keywords ==
    <<"time complexity", "space complexity", "o(", "big o", "runtime",
      "memory", "efficiency", "faster", "slower">>

data_structure_keywords ==
    <<"hashmap", "dictionary", "set", "list", "array", "stack", "queue",
      "tree", "graph", "heap", "linked list">>

approach_selection_keywords ==
    <<"iterative", "recursive", "dynamic programming", "greedy",
      "divide and conquer">>

justification_keywords ==
    <<"because", "since", "so", "therefore", "this allows",
      "for this reason", "efficient for">>

code_description_keywords ==
    <<"algorithm", "logic", "implement", "function", "method", "code",
      "steps", "process", "iterate", "loop", "condition", "variable">>

clarity_keywords ==
    <<"clearly", "easy to understand", "straightforward", "concise",
      "simple", "readable">>

testing_keywords ==
    <<"test", "example", "try", "run", "input", "output", "expect", "verify",
      "check", "let's see", "okay", "so if", "then">>

debugging_keywords ==
    <<"debug", "bug", "error", "wrong", "issue", "problem", "fix",
      "let's see", "check", "examine", "step through", "reason", "logic",
      "analyze", "investigate">>

effective_debugging_keywords ==
    <<"it seems", "because of", "the issue is", "let's check",
      "step by step", "logical", "reasoning">>

guessing_keywords ==
    <<"maybe", "perhaps", "guess", "try", "randomly",
      "just see what happens">>

edge_case_keywords ==
    <<"edge case", "special case", "boundary condition", "corner case",
      "handle", "deal with", "account for", "what about", "if input is">>

thought_process_keywords ==
    <<"because", "so", "therefore", "reasoning", "thinking",
      "my approach is", "my idea is", "plan is", "step", "next", "then",
      "first", "second", "initially", "now", "after that">>

\* sum(1 for keyword in keywords if keyword.lower() in text.lower()), given
\* lowered = text.lower(): one for every list position whose keyword occurs.
CountMatches(keywords, lowered) ==
    Cardinality({i \in 1..Len(keywords) : Contains(lowered, Lower(keywords[i]))})

\* The seventeen *_count locals of analyze_transcript for a lower-cased text.
CountsOfLowered(lowered) ==
    [clarifying_questions_count |-> CountMatches(clarifying_questions_keywords, lowered),
     hints_incorporation_count |-> CountMatches(hints_incorporation_keywords, lowered),
     assumption_questions_count |-> CountMatches(assumption_keywords, lowered),
     example_count |-> CountMatches(example_keywords, lowered),
     approach_count |-> CountMatches(approach_keywords, lowered),
     complexity_count |-> CountMatches(complexity_keywords, lowered),
     ds_mention_count |-> CountMatches(data_structure_keywords, lowered),
     approach_mention_count |-> CountMatches(approach_selection_keywords, lowered),
     justification_count |-> CountMatches(justification_keywords, lowered),
     code_description_count |-> CountMatches(code_description_keywords, lowered),
     clarity_count |-> CountMatches(clarity_keywords, lowered),
     testing_count |-> CountMatches(testing_keywords, lowered),
     debugging_count |-> CountMatches(debugging_keywords, lowered),
     effective_debugging_count |-> CountMatches(effective_debugging_keywords, lowered),
     guessing_count |-> CountMatches(guessing_keywords, lowered),
     edge_case_count |-> CountMatches(edge_case_keywords, lowered),
     thought_process_count |-> CountMatches(thought_process_keywords, lowered)]

\* The keyword counts of a transcript text.
KeywordCounts(text) ==
    CHOOSE c \in {CountsOfLowered(lowered) : lowered \in {Lower(text)}} : TRUE

-----------------------------------------------------------------------------
(* The criteria and their scoring rules *)

ClarifyingCriterion == "Asks clarifying questions and incorporates hints"
AssumptionsCriterion == "Verifies assumptions"
ExamplesCriterion == "Demonstrates understanding w/ example inputs & outputs"
ApproachesCriterion == "Identifies multiple high-level approaches"
ComplexityCriterion == "Determines time & space complexity of each high-level approach"
SelectsCriterion == "Selects appropriate data structure(s) and/or programming approach"
WritesCodeCriterion ==
    "Writes valid, concise, easy to read, and syntactically correct code for the full algorithm"
IndentationCriterion == "Uses proper indentation to make code readable"
NamesCriterion ==
    "Selects descriptive names for variables/functions that follow standard casing conventions"
TestsCriterion == "Manually tests code by verifying output for sample inputs"
\* The source spells the quotation marks around guessing as U+201C / U+201D.
DebuggingCriterion ==
    "Able to track down bugs effectively without resorting to \"guessing\" what is wrong"
EdgeCasesCriterion == "Solution handles edge cases"
ThoughtProcessCriterion == "Verbalizes thought process throughout"
VolumeCriterion == "Uses sufficient vocal volume"
ToneCriterion == "Maintains positive tone and body language throughout"
WhiteboardCriterion ==
    "Utilizes all available whiteboard space, or includes ample comments if coding remotely"

\* A branch that assigns scores[c] = n and assessment[c] = note.
Scored(n, note) == [score |-> PyInt(n), note |-> <<note>>]
\* A criterion fixed at 'N/A', with its note.
FixedNA(note) == [score |-> PyStr("N/A"), note |-> <<note>>]
\* A defensive else branch: scores[c] = 'N/A' and no assessment entry.
ElseNA == [score |-> PyStr("N/A"), note |-> <<>>]

\* 1. lines 43-56
AssessClarifying(c) ==
    LET cq == c.clarifying_questions_count
        hi == c.hints_incorporation_count
    IN  IF cq + hi >= 3
        THEN Scored(4, "Exceptional: Multiple instances of clarifying questions and hint incorporation.")
        ELSE IF cq + hi >= 1
        THEN Scored(3, "Proficient: Asks clarifying questions and/or incorporates hints.")
        ELSE IF cq > 0 \/ hi > 0
        THEN Scored(2, "Developing: Minor attempts at clarifying questions or hint incorporation.")
        ELSE IF cq = 0 /\ hi = 0
        THEN Scored(1, "Not Demonstrated: No clarifying questions or hint incorporation.")
        ELSE ElseNA

\* 2. lines 62-75
AssessAssumptions(c) ==
    LET n == c.assumption_questions_count
    IN  IF n >= 3
        THEN Scored(4, "Exceptional: Thoroughly verifies multiple assumptions and constraints.")
        ELSE IF n >= 2
        THEN Scored(3, "Proficient: Verifies key assumptions and constraints.")
        ELSE IF n >= 1
        THEN Scored(2, "Developing: Attempts to verify some assumptions.")
        ELSE IF n = 0
        THEN Scored(1, "Not Demonstrated: No verification of assumptions.")
        ELSE ElseNA

\* 3. lines 81-94
AssessExamples(c) ==
    LET n == c.example_count
    IN  IF n >= 3
        THEN Scored(4, "Exceptional: Provides multiple clear and insightful examples.")
        ELSE IF n >= 2
        THEN Scored(3, "Proficient: Demonstrates understanding with relevant example inputs and outputs.")
        ELSE IF n >= 1
        THEN Scored(2, "Developing: Attempts to use examples but may be unclear or insufficient.")
        ELSE IF n = 0
        THEN Scored(1, "Not Demonstrated: No use of examples to demonstrate understanding.")
        ELSE ElseNA

\* 4. lines 100-113
AssessApproaches(c) ==
    LET n == c.approach_count
    IN  IF n >= 3
        THEN Scored(4, "Exceptional: Clearly identifies and discusses multiple distinct approaches.")
        ELSE IF n >= 2
        THEN Scored(3, "Proficient: Identifies and mentions more than one high-level approach.")
        ELSE IF n >= 1
        THEN Scored(2, "Developing: Mentions a potential alternative approach but may not elaborate.")
        ELSE IF n = 0
        THEN Scored(1, "Not Demonstrated: Only considers one approach or no approaches explicitly identified.")
        ELSE ElseNA

\* Faulty variant of AssessComplexity: the tiers of the other single-count
\* criteria.
AssessComplexity_Uniform(c) ==
    LET n == c.complexity_count
    IN  IF n >= 3
        THEN Scored(4, "Exceptional: Accurately determines and clearly explains time and space complexity for multiple approaches.")
        ELSE IF n >= 2
        THEN Scored(3, "Proficient: Determines time and space complexity for at least one approach, may have minor inaccuracies.")
        ELSE IF n >= 1
        THEN Scored(2, "Developing: Attempts to discuss complexity but lacks accuracy or depth.")
        ELSE IF n = 0
        THEN Scored(1, "Not Demonstrated: No explicit discussion of time or space complexity.")
        ELSE ElseNA

\* 5. lines 119-132
AssessComplexity(c) ==
    LET n == c.complexity_count
    IN  IF n >= 4
        THEN Scored(4, "Exceptional: Accurately and thoroughly analyzes time and space complexity for multiple approaches.")
        ELSE IF n >= 2
        THEN Scored(3, "Proficient: Determines time and space complexity for at least one approach.")
        ELSE IF n >= 1
        THEN Scored(2, "Developing: Attempts to discuss complexity but may be inaccurate or incomplete.")
        ELSE IF n = 0
        THEN Scored(1, "Not Demonstrated: No discussion of time or space complexity.")
        ELSE ElseNA

\* Faulty variant of AssessSelects: the top tier forgets the justification.
AssessSelects_NoJustification(c) ==
    LET ds == c.ds_mention_count
        ap == c.approach_mention_count
        j == c.justification_count
    IN  IF ds + ap >= 2
        THEN Scored(4, "Exceptional: Selects and justifies appropriate data structures and/or approaches with clear reasoning.")
        ELSE IF ds + ap >= 1 /\ j >= 1
        THEN Scored(3, "Proficient: Selects appropriate data structures and/or approaches and provides some justification.")
        ELSE IF ds + ap >= 1
        THEN Scored(2, "Developing: Mentions data structures or approaches but lacks justification or appropriateness is unclear.")
        ELSE IF ds = 0 /\ ap = 0
        THEN Scored(1, "Not Demonstrated: No explicit selection or discussion of data structures or approaches.")
        ELSE ElseNA

\* Faulty variant of AssessSelects: the top tier asks for three mentions.
AssessSelects_ThreeMentions(c) ==
    LET ds == c.ds_mention_count
        ap == c.approach_mention_count
        j == c.justification_count
    IN  IF ds + ap >= 3 /\ j >= 1
        THEN Scored(4, "Exceptional: Selects and justifies appropriate data structures and/or approaches with clear reasoning.")
        ELSE IF ds + ap >= 1 /\ j >= 1
        THEN Scored(3, "Proficient: Selects appropriate data structures and/or approaches and provides some justification.")
        ELSE IF ds + ap >= 1
        THEN Scored(2, "Developing: Mentions data structures or approaches but lacks justification or appropriateness is unclear.")
        ELSE IF ds = 0 /\ ap = 0
        THEN Scored(1, "Not Demonstrated: No explicit selection or discussion of data structures or approaches.")
        ELSE ElseNA

\* 6. lines 143-156
AssessSelects(c) ==
    LET ds == c.ds_mention_count
        ap == c.approach_mention_count
        j == c.justification_count
    IN  IF ds + ap >= 2 /\ j >= 1
        THEN Scored(4, "Exceptional: Selects and justifies appropriate data structures and/or approaches with clear reasoning.")
        ELSE IF ds + ap >= 1 /\ j >= 1
        THEN Scored(3, "Proficient: Selects appropriate data structures and/or approaches and provides some justification.")
        ELSE IF ds + ap >= 1
        THEN Scored(2, "Developing: Mentions data structures or approaches but lacks justification or appropriateness is unclear.")
        ELSE IF ds = 0 /\ ap = 0
        THEN Scored(1, "Not Demonstrated: No explicit selection or discussion of data structures or approaches.")
        ELSE ElseNA

\* 7. lines 171-184
AssessWritesCode(c) ==
    LET cd == c.code_description_count
        cl == c.clarity_count
    IN  IF cd >= 4 /\ cl >= 2
        THEN Scored(4, "Exceptional: Describes code logic clearly, concisely, and indicates a well-structured algorithm.")
        ELSE IF cd >= 3 /\ cl >= 1
        THEN Scored(3, "Proficient: Describes code logic and implies a reasonably clear and structured algorithm.")
        ELSE IF cd >= 2
        THEN Scored(2, "Developing: Attempts to describe code logic but may be unclear, incomplete or lack structure.")
        ELSE IF cd < 2
        THEN Scored(1, "Not Demonstrated: Minimal or no description of code logic or algorithm.")
        ELSE ElseNA

\* 10. lines 199-212
AssessTests(c) ==
    LET n == c.testing_count
    IN  IF n >= 3
        THEN Scored(4, "Exceptional: Thoroughly tests code with multiple sample inputs and verifies outputs.")
        ELSE IF n >= 2
        THEN Scored(3, "Proficient: Manually tests code with at least one sample input and verifies output.")
        ELSE IF n >= 1
        THEN Scored(2, "Developing: Attempts to test code but may be superficial or output verification is unclear.")
        ELSE IF n = 0
        THEN Scored(1, "Not Demonstrated: No manual testing of code mentioned.")
        ELSE ElseNA

\* Faulty variant of AssessDebugging: one guessing keyword is tolerated.
AssessDebugging_ToleratesOneGuess(c) ==
    LET d == c.debugging_count
        e == c.effective_debugging_count
        g == c.guessing_count
    IN  IF d >= 2 /\ e >= 1 /\ g <= 1
        THEN Scored(4, "Exceptional: Demonstrates effective debugging with logical reasoning, avoids guessing.")
        ELSE IF d >= 1 /\ e >= 1 /\ g <= 1
        THEN Scored(3, "Proficient: Demonstrates debugging, shows some logical steps, and avoids guessing.")
        ELSE IF d >= 1 /\ g <= 1
        THEN Scored(2, "Developing: Attempts debugging but might be somewhat haphazard or lacks clear reasoning.")
        ELSE IF d = 0 \/ g > 1
        THEN Scored(1, "Not Demonstrated: Limited or ineffective debugging, or resorts to guessing.")
        ELSE ElseNA

\* Faulty variant of AssessDebugging: guessing is not checked in the top tier.
AssessDebugging_Additive(c) ==
    LET d == c.debugging_count
        e == c.effective_debugging_count
        g == c.guessing_count
    IN  IF d >= 2 /\ e >= 1
        THEN Scored(4, "Exceptional: Demonstrates effective debugging with logical reasoning, avoids guessing.")
        ELSE IF d >= 1 /\ e >= 1 /\ g = 0
        THEN Scored(3, "Proficient: Demonstrates debugging, shows some logical steps, and avoids guessing.")
        ELSE IF d >= 1 /\ g = 0
        THEN Scored(2, "Developing: Attempts debugging but might be somewhat haphazard or lacks clear reasoning.")
        ELSE IF d = 0 \/ g > 0
        THEN Scored(1, "Not Demonstrated: Limited or ineffective debugging, or resorts to guessing.")
        ELSE ElseNA

\* Faulty variant of AssessDebugging: the lowest tier tests only d = 0, so a
\* text with debugging and guessing keywords falls through to the else branch.
AssessDebugging_Gap(c) ==
    LET d == c.debugging_count
        e == c.effective_debugging_count
        g == c.guessing_count
    IN  IF d >= 2 /\ e >= 1 /\ g = 0
        THEN Scored(4, "Exceptional: Demonstrates effective debugging with logical reasoning, avoids guessing.")
        ELSE IF d >= 1 /\ e >= 1 /\ g = 0
        THEN Scored(3, "Proficient: Demonstrates debugging, shows some logical steps, and avoids guessing.")
        ELSE IF d >= 1 /\ g = 0
        THEN Scored(2, "Developing: Attempts debugging but might be somewhat haphazard or lacks clear reasoning.")
        ELSE IF d = 0
        THEN Scored(1, "Not Demonstrated: Limited or ineffective debugging, or resorts to guessing.")
        ELSE ElseNA

\* 11. lines 223-236
AssessDebugging(c) ==
    LET d == c.debugging_count
        e == c.effective_debugging_count
        g == c.guessing_count
    IN  IF d >= 2 /\ e >= 1 /\ g = 0
        THEN Scored(4, "Exceptional: Demonstrates effective debugging with logical reasoning, avoids guessing.")
        ELSE IF d >= 1 /\ e >= 1 /\ g = 0
        THEN Scored(3, "Proficient: Demonstrates debugging, shows some logical steps, and avoids guessing.")
        ELSE IF d >= 1 /\ g = 0
        THEN Scored(2, "Developing: Attempts debugging but might be somewhat haphazard or lacks clear reasoning.")
        ELSE IF d = 0 \/ g > 0
        THEN Scored(1, "Not Demonstrated: Limited or ineffective debugging, or resorts to guessing.")
        ELSE ElseNA

\* 12. lines 242-255
AssessEdgeCases(c) ==
    LET n == c.edge_case_count
    IN  IF n >= 3
        THEN Scored(4, "Exceptional: Thoroughly considers and handles multiple edge cases.")
        ELSE IF n >= 2
        THEN Scored(3, "Proficient: Identifies and addresses key edge cases.")
        ELSE IF n >= 1
        THEN Scored(2, "Developing: Mentions edge cases but handling might be incomplete or unclear.")
        ELSE IF n = 0
        THEN Scored(1, "Not Demonstrated: No explicit consideration of edge cases.")
        ELSE ElseNA

\* 13. lines 261-274
AssessThoughtProcess(c) ==
    LET n == c.thought_process_count
    IN  IF n >= 15
        THEN Scored(4, "Exceptional: Consistently and clearly verbalizes thought process throughout the entire interview.")
        ELSE IF n >= 8
        THEN Scored(3, "Proficient: Regularly verbalizes thought process, providing good insight into their thinking.")
        ELSE IF n >= 3
        THEN Scored(2, "Developing: Sometimes verbalizes thought process, but may be inconsistent or brief.")
        ELSE IF n < 3
        THEN Scored(1, "Not Demonstrated: Minimal or no verbalization of thought process.")
        ELSE ElseNA

\* 8. lines 188-189
AssessIndentation(c) ==
    FixedNA("N/A: Cannot be assessed from transcript without code.")

\* Faulty variant of AssessNames: scored from the code-description keywords.
AssessNames_Scored(c) ==
    IF c.code_description_count >= 1
    THEN Scored(3, "Proficient: Names are mentioned.")
    ELSE Scored(1, "Not Demonstrated: No names are mentioned.")

\* 9. lines 192-193
AssessNames(c) ==
    FixedNA("N/A: Cannot be assessed from transcript unless variable/function names are mentioned.")

\* 14. lines 277-278
AssessVolume(c) ==
    FixedNA("N/A: Cannot be assessed from text transcript.")

\* Faulty variant of AssessTone: tone is scored from the clarity keywords.
AssessTone_FromText(c) ==
    IF c.clarity_count >= 1
    THEN Scored(3, "Proficient: Positive tone.")
    ELSE Scored(1, "Not Demonstrated: No positive tone.")

\* 15. lines 282-283
AssessTone(c) ==
    FixedNA("N/A: Body language and tone (reliably) cannot be assessed from text transcript.")

\* 16. lines 286-287
AssessWhiteboard(c) ==
    FixedNA("N/A: Cannot be assessed from transcript unless explicitly mentioned.")

\* The criteria in the order analyze_transcript inserts them into scores.
CriteriaOrder ==
    <<ClarifyingCriterion, AssumptionsCriterion, ExamplesCriterion,
      ApproachesCriterion, ComplexityCriterion, SelectsCriterion,
      WritesCodeCriterion, IndentationCriterion, NamesCriterion,
      TestsCriterion, DebuggingCriterion, EdgeCasesCriterion,
      ThoughtProcessCriterion, VolumeCriterion, ToneCriterion,
      WhiteboardCriterion>>

Criteria == {CriteriaOrder[i] : i \in 1..Len(CriteriaOrder)}

\* What lines 37-287 assign for criterion k, given the keyword counts c.
Assess(k, c) ==
    CASE k = ClarifyingCriterion -> AssessClarifying(c)
      [] k = AssumptionsCriterion -> AssessAssumptions(c)
      [] k = ExamplesCriterion -> AssessExamples(c)
      [] k = ApproachesCriterion -> AssessApproaches(c)
      [] k = ComplexityCriterion -> AssessComplexity(c)
      [] k = SelectsCriterion -> AssessSelects(c)
      [] k = WritesCodeCriterion -> AssessWritesCode(c)
      [] k = IndentationCriterion -> AssessIndentation(c)
      [] k = NamesCriterion -> AssessNames(c)
      [] k = TestsCriterion -> AssessTests(c)
      [] k = DebuggingCriterion -> AssessDebugging(c)
      [] k = EdgeCasesCriterion -> AssessEdgeCases(c)
      [] k = ThoughtProcessCriterion -> AssessThoughtProcess(c)
      [] k = VolumeCriterion -> AssessVolume(c)
      [] k = ToneCriterion -> AssessTone(c)
      [] k = WhiteboardCriterion -> AssessWhiteboard(c)

\* The scores dict after line 287.
ScoresOf(c) == [k \in Criteria |-> Assess(k, c).score]

\* The assessment dict after line 287: only the branches that assign a note.
AssessmentOf(c) ==
    [k \in {x \in Criteria : Assess(x, c).note # <<>>} |-> Assess(k, c).note[1]]

\* Faulty variant of PassFailOf: every value that is not 3 or 4 fails, 'N/A'
\* included.
PassFailOf_NAFails(s) ==
    IF \E k \in DOMAIN s : s[k] \notin {PyInt(3), PyInt(4)} THEN "Fail" ELSE "Pass"

\* lines 291-295: "Fail" as soon as a value of scores is 1 or 2.
PassFailOf(s) ==
    IF \E k \in DOMAIN s : s[k] \in {PyInt(1), PyInt(2)} THEN "Fail" ELSE "Pass"

-----------------------------------------------------------------------------
(* The input files *)

\* A dialogue that every scored criterion rates 3 or 4.
PassingDialogue ==
    "To clarify my approach: first handle the empty input edge case, then the next step is a simple loop, so the code logic is logical, because the second way has o(n) runtime, now output the set."

\* Dialogue texts the transcripts are built from.
Dialogues ==
    {"", "  ",
     "Maybe we just TRY it",
     PassingDialogue,
     "the entry is wrong because of a bug",
     "so", "if it works",
     "volume tone body language whiteboard comments",
     "I want to clarify: so if the input is empty, what happens?",
     "Let's say we use a hashmap because it gives O(1) lookup",
     "array stack", "a tree"}

\* {"speaker": s, "dialogue": d}
Turn(s, d) == PyDict([k \in {"speaker", "dialogue"} |->
                        IF k = "speaker" THEN s ELSE d])
\* A mapping with the single key k.
Single(k, v) == PyDict([x \in {k} |-> v])

\* Elements of the transcript array: well-formed turns, and elements that are
\* not a mapping, lack a key, or carry a dialogue that is not a string.
Entries ==
    {Turn(PyStr("Candidate"), PyStr(d)) : d \in Dialogues}
    \cup {Single("dialogue", PyStr("maybe")),
          Single("speaker", PyStr("Candidate")),
          Turn(PyStr("Candidate"), PyNone),
          Turn(PyStr("Candidate"), PyInt(5)),
          PyStr("so")}

\* All sequences over S of length at most n.
SeqsUpTo(S, n) == UNION {[1..m -> S] : m \in 0..n}

\* {"interview": {"transcript": t}}
Document(t) == Single("interview", Single("transcript", t))

\* Parsed JSON documents: every shape of the top level, of interview and of
\* transcript, and the transcript arrays over Entries.
Documents ==
    {PyList(<<>>), PyStr("x"), PyInt(3), PyNone, PyDict(EmptyMap),
     Single("interview", PyNone), Single("interview", PyStr("x")),
     Single("interview", PyDict(EmptyMap)),
     Document(PyNone), Document(PyInt(5)), Document(PyStr("so")),
     Document(PyStr("")), Document(PyDict(EmptyMap)),
     Document(Single("dialogue", PyStr("so")))}
    \cup {Document(PyList(t)) : t \in SeqsUpTo(Entries, MaxTurns)}

\* What open() and json.load() can meet.
Files ==
    {[kind |-> "missing"], [kind |-> "malformed"]}
    \cup {[kind |-> "json", data |-> d] : d \in Documents}

-----------------------------------------------------------------------------
(* analyze_transcript *)

ErrorResult(msg) == Single("error", PyStr(msg))

\* The values a for loop over v visits: the items of a list, the characters
\* of a string, the keys of a dict.  None and numbers are not iterable.
Iterable(v) == v.type \in {"list", "str", "dict"}

RECURSIVE KeysOf(_)
KeysOf(S) ==
    IF S = {} THEN <<>>
    ELSE LET k == CHOOSE x \in S : TRUE IN <<PyStr(k)>> \o KeysOf(S \ {k})

IterItems(v) ==
    CASE v.type = "list" -> v.items
      [] v.type = "str" -> [i \in 1..Len(v.s) |-> PyStr(SubSeq(v.s, i, i))]
      [] v.type = "dict" -> KeysOf(DOMAIN v.map)

\* analyze_transcript's result dict, lines 297-301.
AnalysisResult(s, a, pf) ==
    PyDict([k \in {"scores", "assessment_details", "pass_fail"} |->
        CASE k = "scores" -> PyDict(s)
          [] k = "assessment_details" -> PyDict([c \in DOMAIN a |-> PyStr(a[c])])
          [] k = "pass_fail" -> PyStr(pf)])

Raise(exc) ==
    /\ raised' = exc
    /\ pc' = "raised"

Return(v) ==
    /\ result' = v
    /\ pc' = "done"

\* lines 15-16 and 23-26: open the file and parse it.
AT_Load ==
    /\ pc = "start"
    /\ IF file.kind = "missing"
       THEN /\ Return(ErrorResult("Transcript file not found."))
            /\ UNCHANGED <<transcript_data, raised>>
       ELSE IF file.kind = "malformed"
       THEN /\ Return(ErrorResult("Invalid JSON format in transcript file."))
            /\ UNCHANGED <<transcript_data, raised>>
       ELSE /\ transcript_data' = file.data
            /\ pc' = "extract"
            /\ UNCHANGED <<result, raised>>
    /\ UNCHANGED <<svars, pvars, file, dialogue_entries, entry_index, transcript_text,
                   counts, scores, assessment, pass_fail>>

\* lines 18-19: transcript_data.get('interview', {}).get('transcript', []).
\* .get on a value that is not a dict is an AttributeError, which no except
\* clause of the function catches.
AT_Extract ==
    /\ pc = "extract"
    /\ IF transcript_data.type # "dict"
       THEN /\ Raise("AttributeError")
            /\ UNCHANGED <<dialogue_entries, transcript_text>>
       ELSE LET interview == DictGet(transcript_data, "interview", PyDict(EmptyMap))
            IN  IF interview.type # "dict"
                THEN /\ Raise("AttributeError")
                     /\ UNCHANGED <<dialogue_entries, transcript_text>>
                ELSE /\ dialogue_entries' = DictGet(interview, "transcript", PyList(<<>>))
                     /\ transcript_text' = ""
                     /\ pc' = "concat"
                     /\ UNCHANGED raised
    /\ UNCHANGED <<svars, pvars, file, transcript_data, entry_index, counts, scores,
                   assessment, pass_fail, result>>

\* Faulty variant of AT_Concat: each dialogue ends a line.
AT_Concat_LineBreaks ==
    /\ pc = "concat"
    /\ IF ~Iterable(dialogue_entries)
       THEN /\ Raise("TypeError")
            /\ UNCHANGED <<entry_index, transcript_text>>
       ELSE /\ entry_index < Len(IterItems(dialogue_entries))
            /\ LET entry == IterItems(dialogue_entries)[entry_index + 1]
               IN  IF entry.type # "dict"
                   THEN /\ Raise("AttributeError")
                        /\ UNCHANGED <<entry_index, transcript_text>>
                   ELSE LET dialogue == DictGet(entry, "dialogue", PyStr(""))
                        IN  IF dialogue.type # "str"
                            THEN /\ Raise("TypeError")
                                 /\ UNCHANGED <<entry_index, transcript_text>>
                            ELSE /\ transcript_text' = transcript_text \o dialogue.s \o "\n"
                                 /\ entry_index' = entry_index + 1
                                 /\ UNCHANGED <<pc, raised>>
    /\ UNCHANGED <<svars, pvars, file, transcript_data, dialogue_entries, counts, scores,
                   assessment, pass_fail, result>>

\* Faulty variant of AT_Concat: the text is assigned, not extended.
AT_Concat_KeepsLast ==
    /\ pc = "concat"
    /\ IF ~Iterable(dialogue_entries)
       THEN /\ Raise("TypeError")
            /\ UNCHANGED <<entry_index, transcript_text>>
       ELSE /\ entry_index < Len(IterItems(dialogue_entries))
            /\ LET entry == IterItems(dialogue_entries)[entry_index + 1]
               IN  IF entry.type # "dict"
                   THEN /\ Raise("AttributeError")
                        /\ UNCHANGED <<entry_index, transcript_text>>
                   ELSE LET dialogue == DictGet(entry, "dialogue", PyStr(""))
                        IN  IF dialogue.type # "str"
                            THEN /\ Raise("TypeError")
                                 /\ UNCHANGED <<entry_index, transcript_text>>
                            ELSE /\ transcript_text' = dialogue.s \o " "
                                 /\ entry_index' = entry_index + 1
                                 /\ UNCHANGED <<pc, raised>>
    /\ UNCHANGED <<svars, pvars, file, transcript_data, dialogue_entries, counts, scores,
                   assessment, pass_fail, result>>

\* Faulty variant of AT_Concat: the dialogues are joined without the space.
AT_Concat_NoSeparator ==
    /\ pc = "concat"
    /\ IF ~Iterable(dialogue_entries)
       THEN /\ Raise("TypeError")
            /\ UNCHANGED <<entry_index, transcript_text>>
       ELSE /\ entry_index < Len(IterItems(dialogue_entries))
            /\ LET entry == IterItems(dialogue_entries)[entry_index + 1]
               IN  IF entry.type # "dict"
                   THEN /\ Raise("AttributeError")
                        /\ UNCHANGED <<entry_index, transcript_text>>
                   ELSE LET dialogue == DictGet(entry, "dialogue", PyStr(""))
                        IN  IF dialogue.type # "str"
                            THEN /\ Raise("TypeError")
                                 /\ UNCHANGED <<entry_index, transcript_text>>
                            ELSE /\ transcript_text' = transcript_text \o dialogue.s
                                 /\ entry_index' = entry_index + 1
                                 /\ UNCHANGED <<pc, raised>>
    /\ UNCHANGED <<svars, pvars, file, transcript_data, dialogue_entries, counts, scores,
                   assessment, pass_fail, result>>

\* lines 20-21, one iteration: transcript_text += entry.get('dialogue', '') + " ".
\* Iterating None or a number, and adding " " to a dialogue that is not a
\* string, are TypeErrors; .get on an entry that is not a dict is an
\* AttributeError.
AT_Concat ==
    /\ pc = "concat"
    /\ IF ~Iterable(dialogue_entries)
       THEN /\ Raise("TypeError")
            /\ UNCHANGED <<entry_index, transcript_text>>
       ELSE /\ entry_index < Len(IterItems(dialogue_entries))
            /\ LET entry == IterItems(dialogue_entries)[entry_index + 1]
               IN  IF entry.type # "dict"
                   THEN /\ Raise("AttributeError")
                        /\ UNCHANGED <<entry_index, transcript_text>>
                   ELSE LET dialogue == DictGet(entry, "dialogue", PyStr(""))
                        IN  IF dialogue.type # "str"
                            THEN /\ Raise("TypeError")
                                 /\ UNCHANGED <<entry_index, transcript_text>>
                            ELSE /\ transcript_text' = transcript_text \o dialogue.s \o " "
                                 /\ entry_index' = entry_index + 1
                                 /\ UNCHANGED <<pc, raised>>
    /\ UNCHANGED <<svars, pvars, file, transcript_data, dialogue_entries, counts, scores,
                   assessment, pass_fail, result>>

\* lines 28-29, after the loop: `if not transcript_text` returns the error.
AT_CheckText ==
    /\ pc = "concat"
    /\ Iterable(dialogue_entries)
    /\ entry_index = Len(IterItems(dialogue_entries))
    /\ IF ~Truthy(PyStr(transcript_text))
       THEN Return(ErrorResult("No transcript text found in the JSON file."))
       ELSE /\ pc' = "assess"
            /\ UNCHANGED result
    /\ UNCHANGED <<svars, pvars, file, transcript_data, dialogue_entries, entry_index,
                   transcript_text, counts, scores, assessment, pass_fail, raised>>

\* lines 31-287: the keyword counts and the sixteen criterion assessments.
AT_Assess ==
    /\ pc = "assess"
    /\ counts' = KeywordCounts(transcript_text)
    /\ scores' = ScoresOf(counts')
    /\ assessment' = AssessmentOf(counts')
    /\ pc' = "verdict"
    /\ UNCHANGED <<svars, pvars, file, transcript_data, dialogue_entries, entry_index,
                   transcript_text, pass_fail, result, raised>>

\* lines 290-295
AT_PassFail ==
    /\ pc = "verdict"
    /\ pass_fail' = PassFailOf(scores)
    /\ pc' = "return"
    /\ UNCHANGED <<svars, pvars, file, transcript_data, dialogue_entries, entry_index,
                   transcript_text, counts, scores, assessment, result, raised>>

\* lines 297-303
AT_Return ==
    /\ pc = "return"
    /\ Return(AnalysisResult(scores, assessment, pass_fail))
    /\ UNCHANGED <<svars, pvars, file, transcript_data, dialogue_entries, entry_index,
                   transcript_text, counts, scores, assessment, pass_fail, raised>>

-----------------------------------------------------------------------------
(* Floats, as exact fractions in lowest terms *)

\* The greatest common divisor of a and b, both taken once.
RECURSIVE GCD(_, _)
GCD(a, b) ==
    CHOOSE g \in {IF y = 0 THEN x ELSE GCD(y, x % y) : x \in {a}, y \in {b}} : TRUE

Abs(n) == IF n < 0 THEN -n ELSE n

\* The float n / d (d > 0).
PyFloat(n, d) ==
    CHOOSE f \in {[type |-> "float", num |-> x \div g, den |-> y \div g] :
                    <<x, y, g>> \in {<<n, d, GCD(Abs(n), d)>>}} : TRUE

-----------------------------------------------------------------------------
(* The sentence splitter and the polarity scorer (nltk) as analyze_sentiment
   uses them *)

\* s without its trailing spaces.
RECURSIVE RStrip(_)
RStrip(s) ==
    IF s # "" /\ SubSeq(s, Len(s), Len(s)) = " "
    THEN RStrip(SubSeq(s, 1, Len(s) - 1))
    ELSE s

\* The first position from i on that holds no space (Len(s) + 1 when none).
RECURSIVE SkipSpaces(_, _)
SkipSpaces(s, i) ==
    IF i <= Len(s) /\ SubSeq(s, i, i) = " " THEN SkipSpaces(s, i + 1) ELSE i

\* The sentences of s from position start on, i being the scanning position:
\* a sentence ends at ".", "!" or "?" followed by a space and more text; the
\* last one loses its trailing spaces and is dropped when empty.
RECURSIVE SentencesFrom(_, _, _)
SentencesFrom(s, start, i) ==
    IF i > Len(s)
    THEN LET last == RStrip(SubSeq(s, start, Len(s)))
         IN  IF last = "" THEN <<>> ELSE <<last>>
    ELSE IF /\ SubSeq(s, i, i) \in {".", "!", "?"}
            /\ i < Len(s)
            /\ SubSeq(s, i + 1, i + 1) = " "
            /\ SkipSpaces(s, i + 1) <= Len(s)
    THEN <<SubSeq(s, start, i)>>
            \o SentencesFrom(s, SkipSpaces(s, i + 1), SkipSpaces(s, i + 1))
    ELSE SentencesFrom(s, start, i + 1)

\* tokenize.sent_tokenize(utterance), line 106: an empty or blank utterance
\* has no sentence.
sent_tokenize(utterance) == SentencesFrom(utterance, 1, 1)

\* The characters line 109 keeps: letters, digits, whitespace and . , ? ! '
KeptCharacters ==
    DOMAIN LowerOf \cup {LowerOf[c] : c \in DOMAIN LowerOf}
    \cup {"0", "1", "2", "3", "4", "5", "6", "7", "8", "9"}
    \cup {" ", ".", ",", "?", "!", "'"}

\* re.sub(r"[^a-zA-Z0-9\s.,?!']", "", sentence), line 109.
RECURSIVE CleanFrom(_, _)
CleanFrom(sentence, i) ==
    IF i > Len(sentence) THEN ""
    ELSE (IF SubSeq(sentence, i, i) \in KeptCharacters
          THEN SubSeq(sentence, i, i) ELSE "")
         \o CleanFrom(sentence, i + 1)

cleaned_sentence(sentence) == CleanFrom(sentence, 1)

\* analyzer.polarity_scores(cleaned_sentence), line 111, in units of 1/10000:
\* the scores of the one-word sentences of the lexicon words great, good and
\* bad; a text with no word scores nothing at all, any other text is neutral.
polarity_scores(text) ==
    CASE Lower(text) = "great." ->
            [compound |-> 6249, pos |-> 10000, neg |-> 0, neu |-> 0]
      [] Lower(text) = "good." ->
            [compound |-> 4404, pos |-> 10000, neg |-> 0, neu |-> 0]
      [] Lower(text) = "bad." ->
            [compound |-> -5423, pos |-> 0, neg |-> 10000, neu |-> 0]
      [] \A i \in 1..Len(text) : SubSeq(text, i, i) \in {" ", ".", ",", "?", "!", "'"} ->
            [compound |-> 0, pos |-> 0, neg |-> 0, neu |-> 0]
      [] OTHER ->
            [compound |-> 0, pos |-> 0, neg |-> 0, neu |-> 10000]

-----------------------------------------------------------------------------
(* analyze_sentiment and summarize_sentiment (sentiment_analyzer.py) *)

\* The sentences of every utterance, in order (lines 104-107).
RECURSIVE AllSentences(_)
AllSentences(utterances) ==
    IF utterances = <<>> THEN <<>>
    ELSE sent_tokenize(Head(utterances).s) \o AllSentences(Tail(utterances))

RECURSIVE SumOf(_, _)
SumOf(sentences, key) ==
    IF sentences = <<>> THEN 0
    ELSE polarity_scores(cleaned_sentence(Head(sentences)))[key]
            + SumOf(Tail(sentences), key)

\* The sum of the per-utterance means of a score, as a fraction
\* <<numerator, denominator>> in units of 1/10000.
RECURSIVE SumOfMeans(_, _)
SumOfMeans(utterances, key) ==
    IF utterances = <<>> THEN <<0, 1>>
    ELSE LET sentences == sent_tokenize(Head(utterances).s)
             rest == SumOfMeans(Tail(utterances), key)
         IN  <<SumOf(sentences, key) * rest[2] + rest[1] * Len(sentences),
               Len(sentences) * rest[2]>>

calculate_average_sentiment_PerUtterance(utterances) ==
    IF ~Truthy(PyList(utterances))
    THEN [raises |-> "", value |-> PyNone]
    ELSE IF \E i \in 1..Len(utterances) : utterances[i].type # "str"
    THEN [raises |-> "TypeError", value |-> PyNone]
    ELSE IF \E i \in 1..Len(utterances) : sent_tokenize(utterances[i].s) = <<>>
    THEN [raises |-> "ZeroDivisionError", value |-> PyNone]
    ELSE [raises |-> "",
          value |-> PyDict(
            [k \in {"compound", "positive", "negative", "neutral"} |->
               LET key == CASE k = "compound" -> "compound"
                            [] k = "positive" -> "pos"
                            [] k = "negative" -> "neg"
                            [] k = "neutral" -> "neu"
                   total == SumOfMeans(utterances, key)
               IN  PyFloat(total[1], total[2] * Len(utterances) * 10000)])]

\* How calculate_average_sentiment(utterances) ends, lines 96-127: None for
\* an empty list; a TypeError when an utterance is not a string
\* (sent_tokenize); a ZeroDivisionError when no utterance has a sentence
\* (sum([]) / len([])); else the four means over all sentences.
calculate_average_sentiment(utterances) ==
    IF ~Truthy(PyList(utterances))
    THEN [raises |-> "", value |-> PyNone]
    ELSE IF \E i \in 1..Len(utterances) : utterances[i].type # "str"
    THEN [raises |-> "TypeError", value |-> PyNone]
    ELSE LET sentences == AllSentences(utterances)
             n == Len(sentences)
         IN  IF n = 0
             THEN [raises |-> "ZeroDivisionError", value |-> PyNone]
             ELSE [raises |-> "",
                   value |-> PyDict(
                     [k \in {"compound", "positive", "negative", "neutral"} |->
                        CASE k = "compound" -> PyFloat(SumOf(sentences, "compound"), n * 10000)
                          [] k = "positive" -> PyFloat(SumOf(sentences, "pos"), n * 10000)
                          [] k = "negative" -> PyFloat(SumOf(sentences, "neg"), n * 10000)
                          [] k = "neutral" -> PyFloat(SumOf(sentences, "neu"), n * 10000)])]

AtLeastPositiveThreshold_Exclusive(x) == x.num * 100 > 5 * x.den

\* x >= 0.05 and x <= -0.05 for a float x.
AtLeastPositiveThreshold(x) == x.num * 100 >= 5 * x.den
AtMostNegativeThreshold(x) == x.num * 100 <= -5 * x.den

\* x * 100
TimesHundred(x) == PyFloat(x.num * 100, x.den)

\* interpret_sentiment(sentiment_data), lines 149-179.
interpret_sentiment(sentiment_data) ==
    IF sentiment_data = PyNone
    THEN PyDict([k \in {"overall_sentiment", "positive_percentage",
                        "negative_percentage", "neutral_percentage",
                        "compound_score"} |->
                    IF k = "overall_sentiment"
                    THEN PyStr("No sentiment data available.")
                    ELSE PyNone])
    ELSE LET compound_score == sentiment_data.map["compound"]
             overall_sentiment ==
                IF AtLeastPositiveThreshold(compound_score) THEN "Generally positive"
                ELSE IF AtMostNegativeThreshold(compound_score) THEN "Generally negative"
                ELSE "Neutral"
         IN  PyDict([k \in {"overall_sentiment", "positive_percentage",
                            "negative_percentage", "neutral_percentage",
                            "compound_score"} |->
                CASE k = "overall_sentiment" -> PyStr(overall_sentiment)
                  [] k = "positive_percentage" -> TimesHundred(sentiment_data.map["positive"])
                  [] k = "negative_percentage" -> TimesHundred(sentiment_data.map["negative"])
                  [] k = "neutral_percentage" -> TimesHundred(sentiment_data.map["neutral"])
                  [] k = "compound_score" -> compound_score])

\* Speakers and dialogues of the turns the sentiment inputs are built from.
Speakers == {"Candidate", "INTERVIEWER", "alice"}
Utterances == {"", "Great.", "Bad. Good."}

\* Elements of the transcript array: well-formed turns, and elements that are
\* not a mapping, lack a key or hold null.
SentimentEntries ==
    {Turn(PyStr(s), PyStr(d)) : s \in Speakers, d \in Utterances}
    \cup {Single("dialogue", PyStr("Great.")),
          Single("speaker", PyStr("Candidate")),
          Turn(PyNone, PyStr("Great.")),
          Turn(PyStr("Candidate"), PyNone),
          PyStr("Great.")}

\* The interview objects around a transcript t: without names, with a
\* candidate name, with a null candidate name, with an interviewer name, and
\* with two names that are equal ignoring case.
Interviews(t) ==
    {Single("transcript", t),
     PyDict(("candidate" :> PyStr("Alice")) @@ ("transcript" :> t)),
     PyDict(("candidate" :> PyNone) @@ ("transcript" :> t)),
     PyDict(("interviewer" :> PyStr("Alice")) @@ ("transcript" :> t)),
     PyDict(("candidate" :> PyStr("Alice")) @@ ("interviewer" :> PyStr("ALICE"))
            @@ ("transcript" :> t))}

SentimentDocuments ==
    {PyList(<<>>), PyNone, PyDict(EmptyMap),
     Single("interview", PyNone), Single("interview", PyDict(EmptyMap)),
     Document(PyNone), Document(PyStr("Great.")), Document(PyDict(EmptyMap))}
    \cup {Single("interview", i) :
            i \in UNION {Interviews(PyList(t)) : t \in SeqsUpTo(SentimentEntries, MaxTurns)}}

SentimentFiles ==
    {[kind |-> "missing"], [kind |-> "malformed"]}
    \cup {[kind |-> "json", data |-> d] : d \in SentimentDocuments}

SRaise(exc) ==
    /\ s_raised' = exc
    /\ s_pc' = "raised"

\* The line printed for a file that cannot be loaded, lines 45 and 48 (the
\* path of the file follows it).
LoadError(kind) ==
    IF kind = "missing" THEN "Error: File not found: "
    ELSE "Error: Invalid JSON in file: "

\* lines 41-49: a missing or malformed file returns None.
AS_Load ==
    /\ s_pc = "start"
    /\ IF file.kind \in {"missing", "malformed"}
       THEN /\ printed' = Append(printed, LoadError(file.kind))
            /\ sentiment_results' = PyNone
            /\ s_pc' = "returned"
            /\ UNCHANGED data
       ELSE /\ data' = file.data
            /\ s_pc' = "validate"
            /\ UNCHANGED <<sentiment_results, printed>>
    /\ UNCHANGED <<rvars, pvars, file, candidate_name, interviewer_name, turn_index,
                   candidate_utterances, interviewer_utterances,
                   candidate_sentiment, interviewer_sentiment,
                   sentiment_summary, s_raised>>

\* The condition of line 51.
InvalidFormat(d) ==
    \/ d.type # "dict"
    \/ "interview" \notin DOMAIN d.map
    \/ d.map["interview"].type # "dict"
    \/ "transcript" \notin DOMAIN d.map["interview"].map
    \/ d.map["interview"].map["transcript"].type # "list"

\* data['interview']['transcript'], as the sequence of its elements.
TranscriptOf(d) == d.map["interview"].map["transcript"].items

\* The lines printed at lines 52 and 59.
FormatErrorLine ==
    "Error: Invalid JSON format. Expected a dictionary with an 'interview' dictionary containing a 'transcript' list."

NoTurnsLine == "Error: No turns found in the transcript."

\* lines 51-66: the format check, the empty-transcript check and the names.
AS_Validate ==
    /\ s_pc = "validate"
    /\ IF InvalidFormat(data)
       THEN /\ printed' = Append(printed, FormatErrorLine)
            /\ sentiment_results' = PyNone
            /\ s_pc' = "returned"
            /\ UNCHANGED <<candidate_name, interviewer_name>>
       ELSE IF ~Truthy(PyList(TranscriptOf(data)))
       THEN /\ printed' = Append(printed, NoTurnsLine)
            /\ sentiment_results' = PyNone
            /\ s_pc' = "returned"
            /\ UNCHANGED <<candidate_name, interviewer_name>>
       ELSE /\ candidate_name' =
                  DictGet(data.map["interview"], "candidate", PyStr("Candidate"))
            /\ interviewer_name' =
                  DictGet(data.map["interview"], "interviewer", PyStr("Interviewer"))
            /\ s_pc' = "turns"
            /\ UNCHANGED <<sentiment_results, printed>>
    /\ UNCHANGED <<rvars, pvars, file, data, turn_index, candidate_utterances,
                   interviewer_utterances, candidate_sentiment,
                   interviewer_sentiment, sentiment_summary, s_raised>>

\* The condition of line 69.
InvalidTurn(turn) ==
    \/ turn.type # "dict"
    \/ "speaker" \notin DOMAIN turn.map
    \/ "dialogue" \notin DOMAIN turn.map

\* The warnings of lines 70 and 81.
InvalidTurnLine ==
    "Warning: Skipping invalid turn format. Expected dictionary with 'speaker' and 'dialogue'."

UnknownSpeakerLine(speaker) ==
    "Warning: Unknown speaker: " \o speaker \o ". Skipping utterance."

Matches_CaseSensitive(speaker, name) == speaker.s = name.s

\* speaker.lower() == name.lower(), lines 76 and 78.
Matches(speaker, name) == Lower(speaker.s) = Lower(name.s)

\* lines 68-81, one iteration.  speaker.lower() and candidate_name.lower()
\* are AttributeErrors on a value that is not a string.
AS_Turn ==
    /\ s_pc = "turns"
    /\ turn_index < Len(TranscriptOf(data))
    /\ LET turn == TranscriptOf(data)[turn_index + 1]
       IN  IF InvalidTurn(turn)
           THEN /\ printed' = Append(printed, InvalidTurnLine)
                /\ turn_index' = turn_index + 1
                /\ UNCHANGED <<s_pc, s_raised, candidate_utterances,
                               interviewer_utterances>>
           ELSE LET speaker == turn.map["speaker"]
                    utterance == turn.map["dialogue"]
                IN  IF speaker.type # "str" \/ candidate_name.type # "str"
                    THEN /\ SRaise("AttributeError")
                         /\ UNCHANGED <<turn_index, candidate_utterances,
                                        interviewer_utterances, printed>>
                    ELSE IF Matches(speaker, candidate_name)
                    THEN /\ candidate_utterances' = Append(candidate_utterances, utterance)
                         /\ turn_index' = turn_index + 1
                         /\ UNCHANGED <<s_pc, s_raised, interviewer_utterances,
                                        printed>>
                    ELSE IF interviewer_name.type # "str"
                    THEN /\ SRaise("AttributeError")
                         /\ UNCHANGED <<turn_index, candidate_utterances,
                                        interviewer_utterances, printed>>
                    ELSE IF Matches(speaker, interviewer_name)
                    THEN /\ interviewer_utterances' = Append(interviewer_utterances, utterance)
                         /\ turn_index' = turn_index + 1
                         /\ UNCHANGED <<s_pc, s_raised, candidate_utterances,
                                        printed>>
                    ELSE /\ printed' = Append(printed, UnknownSpeakerLine(speaker.s))
                         /\ turn_index' = turn_index + 1
                         /\ UNCHANGED <<s_pc, s_raised, candidate_utterances,
                                        interviewer_utterances>>
    /\ UNCHANGED <<rvars, pvars, file, data, candidate_name, interviewer_name,
                   candidate_sentiment, interviewer_sentiment,
                   sentiment_results, sentiment_summary>>

\* line 129, after the loop.
AS_CandidateAverage ==
    /\ s_pc = "turns"
    /\ turn_index = Len(TranscriptOf(data))
    /\ LET r == calculate_average_sentiment(candidate_utterances)
       IN  IF r.raises # ""
           THEN /\ SRaise(r.raises)
                /\ UNCHANGED candidate_sentiment
           ELSE /\ candidate_sentiment' = r.value
                /\ s_pc' = "interviewer"
                /\ UNCHANGED s_raised
    /\ UNCHANGED <<rvars, pvars, file, data, candidate_name, interviewer_name,
                   turn_index, candidate_utterances, interviewer_utterances,
                   interviewer_sentiment, sentiment_results, sentiment_summary,
                   printed>>

\* line 130
AS_InterviewerAverage ==
    /\ s_pc = "interviewer"
    /\ LET r == calculate_average_sentiment(interviewer_utterances)
       IN  IF r.raises # ""
           THEN /\ SRaise(r.raises)
                /\ UNCHANGED interviewer_sentiment
           ELSE /\ interviewer_sentiment' = r.value
                /\ s_pc' = "return"
                /\ UNCHANGED s_raised
    /\ UNCHANGED <<rvars, pvars, file, data, candidate_name, interviewer_name,
                   turn_index, candidate_utterances, interviewer_utterances,
                   candidate_sentiment, sentiment_results, sentiment_summary,
                   printed>>

\* lines 132-135
AS_Return ==
    /\ s_pc = "return"
    /\ sentiment_results' =
          PyDict([k \in {"candidate", "interviewer"} |->
                    IF k = "candidate" THEN candidate_sentiment
                    ELSE interviewer_sentiment])
    /\ s_pc' = "returned"
    /\ UNCHANGED <<rvars, pvars, file, data, candidate_name, interviewer_name,
                   turn_index, candidate_utterances, interviewer_utterances,
                   candidate_sentiment, interviewer_sentiment,
                   sentiment_summary, s_raised, printed>>

\* summarize_sentiment(results), lines 181-187, which every caller runs when
\* analyze_sentiment returned a result (`if results:`).
SummarizeSentiment ==
    /\ s_pc = "returned"
    /\ Truthy(sentiment_results)
    /\ sentiment_summary' =
          PyDict([k \in {"candidate", "interviewer"} |->
                    interpret_sentiment(sentiment_results.map[k])])
    /\ s_pc' = "summarized"
    /\ UNCHANGED <<rvars, pvars, file, data, candidate_name, interviewer_name,
                   turn_index, candidate_utterances, interviewer_utterances,
                   candidate_sentiment, interviewer_sentiment,
                   sentiment_results, s_raised, printed>>

-----------------------------------------------------------------------------
(* The specifications *)

\* The locals of analyze_transcript before it runs.
RubricLocals ==
    /\ transcript_data = PyNone
    /\ dialogue_entries = PyNone
    /\ entry_index = 0
    /\ transcript_text = ""
    /\ counts = EmptyMap
    /\ scores = EmptyMap
    /\ assessment = EmptyMap
    /\ pass_fail = ""
    /\ result = PyNone
    /\ raised = ""

\* analyze_transcript has not started.
RubricStart ==
    /\ pc = "start"
    /\ RubricLocals

\* The locals of analyze_sentiment and summarize_sentiment before they run.
SentimentLocals ==
    /\ data = PyNone
    /\ candidate_name = PyNone
    /\ interviewer_name = PyNone
    /\ turn_index = 0
    /\ candidate_utterances = <<>>
    /\ interviewer_utterances = <<>>
    /\ candidate_sentiment = PyNone
    /\ interviewer_sentiment = PyNone
    /\ sentiment_results = PyNone
    /\ sentiment_summary = PyNone
    /\ s_raised = ""
    /\ printed = <<>>

\* analyze_sentiment has not started.
SentimentStart ==
    /\ s_pc = "start"
    /\ SentimentLocals

\* The state of the callers before any of them runs.
CallerLocals ==
    /\ directory = <<>>
    /\ transcript_files = <<>>
    /\ file_no = 0
    /\ results = <<>>
    /\ written = PyNone
    /\ p_raised = ""
    /\ analysis_file = PyNone
    /\ sentiment_file = PyNone
    /\ synthesis = PyNone

\* No caller is running.
NoCaller ==
    /\ p_pc = "idle"
    /\ CallerLocals

\* analyze_transcript on one file.
Init ==
    /\ file \in Files
    /\ RubricStart
    /\ SentimentStart
    /\ NoCaller

Next ==
    \/ AT_Load
    \/ AT_Extract
    \/ AT_Concat
    \/ AT_CheckText
    \/ AT_Assess
    \/ AT_PassFail
    \/ AT_Return

Spec == Init /\ [][Next]_vars

\* analyze_sentiment, then summarize_sentiment, on one file.
InitSentiment ==
    /\ file \in SentimentFiles
    /\ RubricStart
    /\ SentimentStart
    /\ NoCaller

NextSentiment ==
    \/ AS_Load
    \/ AS_Validate
    \/ AS_Turn
    \/ AS_CandidateAverage
    \/ AS_InterviewerAverage
    \/ AS_Return
    \/ SummarizeSentiment

SpecSentiment == InitSentiment /\ [][NextSentiment]_vars

-----------------------------------------------------------------------------
(* summarize_sentiment as a function of any result of analyze_sentiment *)

\* Mean compound scores, in thousandths: the two thresholds, their
\* neighbours on either side, zero and two values far from them.
MeanCompounds == {-500, -51, -50, -49, 0, 49, 50, 51, 500}

\* An aggregate whose mean compound score is c thousandths.
Aggregate(c) ==
    PyDict([k \in {"compound", "positive", "negative", "neutral"} |->
        CASE k = "compound" -> PyFloat(c, 1000)
          [] k = "positive" -> IF c > 0 THEN PyFloat(1, 2) ELSE PyFloat(0, 1)
          [] k = "negative" -> IF c < 0 THEN PyFloat(1, 2) ELSE PyFloat(0, 1)
          [] k = "neutral" -> IF c = 0 THEN PyFloat(1, 1) ELSE PyFloat(1, 2)])

\* The values analyze_sentiment can hold for one role.
Aggregates == {PyNone} \cup {Aggregate(c) : c \in MeanCompounds}

\* analyze_sentiment has returned a result; summarize_sentiment is next.
InitSummarize ==
    /\ file = [kind |-> "missing"]
    /\ RubricStart
    /\ NoCaller
    /\ s_pc = "returned"
    /\ sentiment_results \in
          {PyDict([k \in {"candidate", "interviewer"} |->
                      IF k = "candidate" THEN c ELSE i]) :
              c \in Aggregates, i \in Aggregates}
    /\ data = PyNone
    /\ candidate_name = PyNone
    /\ interviewer_name = PyNone
    /\ turn_index = 0
    /\ candidate_utterances = <<>>
    /\ interviewer_utterances = <<>>
    /\ candidate_sentiment = sentiment_results.map["candidate"]
    /\ interviewer_sentiment = sentiment_results.map["interviewer"]
    /\ sentiment_summary = PyNone
    /\ s_raised = ""
    /\ printed = <<>>

NextSummarize == SummarizeSentiment

SpecSummarize == InitSummarize /\ [][NextSummarize]_vars

-----------------------------------------------------------------------------
(* The two scripts that write analysis_output.json and
   sentiment_summary.json, and the synthesis step that reads both *)

\* transcript_analyzer.py run as a script, lines 306-318, after
\* analyze_transcript returned: a result without "error" is written to
\* analysis_output.json.
TA_Main ==
    /\ pc = "done"
    /\ IF "error" \in DOMAIN result.map
       THEN UNCHANGED analysis_file
       ELSE analysis_file' = result
    /\ pc' = "exited"
    /\ UNCHANGED <<svars, file, transcript_data, dialogue_entries, entry_index,
                   transcript_text, counts, scores, assessment, pass_fail,
                   result, raised, p_pc, directory, transcript_files, file_no,
                   results, written, p_raised, sentiment_file, synthesis>>

\* The metadata sentiment_analyzer.py's script reads from the transcript,
\* lines 195-213: interview.<key>, None when the file cannot be read that way.
Metadata(key) ==
    IF /\ file.kind = "json"
       /\ file.data.type = "dict"
       /\ DictGet(file.data, "interview", PyDict(EmptyMap)).type = "dict"
    THEN DictGet(DictGet(file.data, "interview", PyDict(EmptyMap)), key, PyNone)
    ELSE PyNone

\* The five fields of a role copied at lines 228-241.
SummaryFields ==
    {"overall_sentiment", "positive_percentage", "negative_percentage",
     "neutral_percentage", "compound_score"}

\* output_data of lines 221-243.
SummaryDocument ==
    Single("interview",
        PyDict([k \in {"date", "position", "candidate", "interviewer", "question",
                       "candidate_sentiment", "interviewer_sentiment"} |->
            CASE k = "candidate_sentiment" ->
                    PyDict([f \in SummaryFields |-> sentiment_summary.map["candidate"].map[f]])
              [] k = "interviewer_sentiment" ->
                    PyDict([f \in SummaryFields |-> sentiment_summary.map["interviewer"].map[f]])
              [] OTHER -> Metadata(k)]))

\* sentiment_analyzer.py started as a script once transcript_analyzer.py has
\* ended, lines 191-215: it calls analyze_sentiment.
SA_MainStart ==
    /\ p_pc = "analysis"
    /\ pc \in {"exited", "raised"}
    /\ s_pc = "idle"
    /\ s_pc' = "start"
    /\ p_pc' = "sentiment"
    /\ UNCHANGED <<rvars, file, data, candidate_name, interviewer_name,
                   turn_index, candidate_utterances, interviewer_utterances,
                   candidate_sentiment, interviewer_sentiment,
                   sentiment_results, sentiment_summary, s_raised, printed,
                   directory, transcript_files, file_no, results, written,
                   p_raised, analysis_file, sentiment_file, synthesis>>

\* sentiment_analyzer.py run as a script, lines 215-253, after
\* analyze_sentiment (and summarize_sentiment when there is a result): the
\* summary is written to sentiment_summary.json.
SA_Main ==
    /\ \/ s_pc = "summarized"
       \/ s_pc = "returned" /\ ~Truthy(sentiment_results)
    /\ IF s_pc = "summarized"
       THEN sentiment_file' = SummaryDocument
       ELSE UNCHANGED sentiment_file
    /\ s_pc' = "exited"
    /\ UNCHANGED <<rvars, file, data, candidate_name, interviewer_name,
                   turn_index, candidate_utterances, interviewer_utterances,
                   candidate_sentiment, interviewer_sentiment,
                   sentiment_results, sentiment_summary, s_raised, printed,
                   p_pc, directory, transcript_files, file_no, results,
                   written, p_raised, analysis_file, synthesis>>

\* sentiment_data.get("interview", {}).get(role_key, {}), lines 39-40 and 98-99.
SentimentOf(sentiment_data, role_key) ==
    DictGet(DictGet(sentiment_data, "interview", PyDict(EmptyMap)),
            role_key, PyDict(EmptyMap))

\* Faulty variant of Strengths: only a score of 4 is a strength.
Strengths_OnlyExceptional(s) ==
    LET Strong(c) == s.map[c].type = "int" /\ s.map[c].n >= 4
    IN  SelectSeq(CriteriaOrder, Strong)

\* lines 46-51: the criteria with an integer score the test keeps, in the
\* order of scores.
Strengths(s) ==
    LET Strong(c) == s.map[c].type = "int" /\ s.map[c].n >= 3
    IN  SelectSeq(CriteriaOrder, Strong)

Weaknesses(s) ==
    LET Weak(c) == s.map[c].type = "int" /\ ~(s.map[c].n >= 3) /\ s.map[c].n <= 2
    IN  SelectSeq(CriteriaOrder, Weak)

\* lines 67-78: which recommendation text is chosen.
Recommendation(pass_fail_status, strengths, weaknesses) ==
    IF pass_fail_status = PyStr("Pass")
    THEN IF weaknesses = <<>> /\ strengths # <<>>
         THEN "exceptional pass" ELSE "standard pass"
    ELSE IF pass_fail_status = PyStr("Fail")
    THEN IF Len(weaknesses) >= 3 /\ strengths = <<>>
         THEN "poor fail" ELSE "standard fail"
    ELSE "undetermined"

\* lines 81-84: which sentiment-based sentence is appended, "" when none.
SentimentAdvice(candidate_overall_sentiment, interviewer_overall_sentiment) ==
    IF \/ candidate_overall_sentiment \in {PyStr("Negative"), PyStr("Neutral")}
       \/ interviewer_overall_sentiment \in {PyStr("Negative"), PyStr("Neutral")}
    THEN "pay attention"
    ELSE IF /\ candidate_overall_sentiment = PyStr("Positive")
            /\ interviewer_overall_sentiment = PyStr("Positive")
    THEN "keep up the good work"
    ELSE ""

\* output_data of lines 87-100, the texts being held as the parts they are
\* built from.
SynthesisDocument(analysis_data, sentiment_data) ==
    LET analysis_metadata == DictGet(analysis_data, "interview_metadata", PyDict(EmptyMap))
        sentiment_metadata == DictGet(sentiment_data, "interview", PyDict(EmptyMap))
        s == DictGet(analysis_data, "scores", PyDict(EmptyMap))
        pass_fail_status == DictGet(analysis_data, "pass_fail", PyStr("N/A"))
        candidate_overall_sentiment ==
            DictGet(SentimentOf(sentiment_data, "candidate_sentiment"),
                    "overall_sentiment", PyStr("N/A"))
        interviewer_overall_sentiment ==
            DictGet(SentimentOf(sentiment_data, "interviewer_sentiment"),
                    "overall_sentiment", PyStr("N/A"))
    IN  [interview_metadata |-> analysis_metadata,
         metadata_mismatch |->
            \E key \in {"date", "position", "candidate", "interviewer"} :
                DictGet(analysis_metadata, key, PyNone)
                    # DictGet(sentiment_metadata, key, PyNone),
         scores |-> s,
         assessment_details |-> DictGet(analysis_data, "assessment_details", PyDict(EmptyMap)),
         pass_fail |-> pass_fail_status,
         sentiment_intro |-> <<candidate_overall_sentiment, interviewer_overall_sentiment>>,
         strengths |-> Strengths(s),
         weaknesses |-> Weaknesses(s),
         recommendation |-> Recommendation(pass_fail_status, Strengths(s), Weaknesses(s)),
         sentiment_advice |->
            SentimentAdvice(candidate_overall_sentiment, interviewer_overall_sentiment),
         candidate_sentiment |-> SentimentOf(sentiment_data, "candidate_sentiment"),
         interviewer_sentiment |-> SentimentOf(sentiment_data, "interviewer_sentiment")]

\* synthesize_feedback_with_sentiment(), lines 15-107, once the second
\* script has ended: without one of the two input files it returns at line 21.
Synthesize ==
    /\ p_pc = "sentiment"
    /\ s_pc \in {"exited", "raised"}
    /\ IF analysis_file = PyNone \/ sentiment_file = PyNone
       THEN UNCHANGED synthesis
       ELSE synthesis' = SynthesisDocument(analysis_file, sentiment_file)
    /\ p_pc' = "synthesized"
    /\ UNCHANGED <<rvars, svars, file, directory, transcript_files, file_no,
                   results, written, p_raised, analysis_file, sentiment_file>>

\* The turns of the files the scripts are run on: one-sentence dialogues of
\* both roles, and a passing dialogue and one with a guessing keyword by a
\* speaker who is neither.
SynthesisTurns ==
    {Turn(PyStr(s), PyStr(d)) : s \in {"Candidate", "Interviewer"},
                                d \in {"Great.", "Bad.", "..."}}
    \cup {Turn(PyStr("Observer"), PyStr(PassingDialogue)),
          Turn(PyStr("Observer"), PyStr("the entry is wrong because of a bug"))}

SynthesisFiles ==
    {[kind |-> "missing"]}
    \cup {[kind |-> "json", data |-> Document(PyList(t))] :
            t \in SeqsUpTo(SynthesisTurns, MaxTurns)}
    \cup {[kind |-> "json",
           data |-> Single("interview",
                       PyDict(("position" :> PyStr("Engineer")) @@ ("transcript" :> PyList(t))))] :
            t \in SeqsUpTo(SynthesisTurns, MaxTurns)}

\* The two scripts, one after the other, then the synthesis, on
\* interview_transcript.json.
InitSynthesis ==
    /\ file \in SynthesisFiles
    /\ RubricStart
    /\ s_pc = "idle"
    /\ SentimentLocals
    /\ p_pc = "analysis"
    /\ CallerLocals

NextSynthesis ==
    \/ AT_Load
    \/ AT_Extract
    \/ AT_Concat
    \/ AT_CheckText
    \/ AT_Assess
    \/ AT_PassFail
    \/ AT_Return
    \/ TA_Main
    \/ SA_MainStart
    \/ AS_Load
    \/ AS_Validate
    \/ AS_Turn
    \/ AS_CandidateAverage
    \/ AS_InterviewerAverage
    \/ AS_Return
    \/ SummarizeSentiment
    \/ SA_Main
    \/ Synthesize

SpecSynthesis == InitSynthesis /\ [][NextSynthesis]_vars

-----------------------------------------------------------------------------
(* transcript_converter.process_file with the default pattern *)

\* s.strip(), for the spaces of a line.
Strip(s) == RStrip(SubSeq(s, SkipSpaces(s, 1), Len(s)))

\* parse_transcript_line(line), lines 20-44: "Speaker [Time]: Dialogue", else
\* "Speaker: Dialogue", else the whole line as dialogue.
parse_transcript_line(line) ==
    LET Parsed(s) ==
            LET At(i) == SubSeq(s, i, i)
                \* the closing bracket of a "[...]:" that opens at b, 0 when none
                Close(b) ==
                    IF \E e \in (b + 2)..(Len(s) - 1) :
                            /\ At(e) = "]" /\ At(e + 1) = ":"
                            /\ \A x \in (b + 1)..(e - 1) : At(x) # "]"
                    THEN CHOOSE e \in (b + 2)..(Len(s) - 1) :
                            /\ At(e) = "]" /\ At(e + 1) = ":"
                            /\ \A x \in (b + 1)..(e - 1) : At(x) # "]"
                    ELSE 0
                opens == {b \in 1..Len(s) : At(b) = "[" /\ Close(b) # 0}
                colons == {c \in 1..Len(s) : At(c) = ":"}
                Least(S) == CHOOSE m \in S : \A n \in S : m <= n
            IN  IF opens # {}
                THEN PyDict(("speaker" :> PyStr(Strip(SubSeq(s, 1, Least(opens) - 1))))
                         @@ ("time" :> PyStr(Strip(SubSeq(s, Least(opens) + 1, Close(Least(opens)) - 1))))
                         @@ ("dialogue" :> PyStr(Strip(SubSeq(s, Close(Least(opens)) + 2, Len(s))))))
                ELSE IF colons # {}
                THEN Turn(PyStr(Strip(SubSeq(s, 1, Least(colons) - 1))),
                          PyStr(Strip(SubSeq(s, Least(colons) + 1, Len(s)))))
                ELSE Single("dialogue", PyStr(s))
    IN  CHOOSE entry \in {Parsed(s) : s \in {Strip(line)}} : TRUE

\* The entries of the lines that are not blank, lines 90-95.
RECURSIVE ParsedLines(_)
ParsedLines(lines) ==
    IF lines = <<>> THEN <<>>
    ELSE (IF Strip(Head(lines)) # "" THEN <<parse_transcript_line(Head(lines))>> ELSE <<>>)
         \o ParsedLines(Tail(lines))

\* The JSON file process_file(file_path) writes for a text file, lines 70-105
\* (the date is the day of the run).
process_file(lines) ==
    [kind |-> "json",
     data |-> Single("interview",
                 PyDict(("date" :> PyStr("2025-01-01"))
                     @@ ("transcript" :> PyList(ParsedLines(lines)))))]

-----------------------------------------------------------------------------
(* combined_analysis_pipeline.process_all_transcripts *)

\* Longest directory listing the inputs are drawn from.
MaxFiles == 2

\* s.endswith(suffix)
EndsWith(s, suffix) ==
    /\ Len(s) >= Len(suffix)
    /\ SubSeq(s, Len(s) - Len(suffix) + 1, Len(s)) = suffix

\* The files a transcripts directory can hold, by name: JSON transcripts that
\* score, that have no turn, whose only utterance has no sentence and whose
\* first element is not a mapping; text transcripts, one of them unreadable;
\* a file of another type.
DirectoryEntries ==
    {[name |-> "a.json",
      content |-> [kind |-> "json",
                   data |-> Document(PyList(<<Turn(PyStr("Candidate"), PyStr("Great.")),
                                              Turn(PyStr("Observer"), PyStr(PassingDialogue))>>))]],
     [name |-> "b.json",
      content |-> [kind |-> "json", data |-> Document(PyList(<<>>))]],
     [name |-> "c.json",
      content |-> [kind |-> "json",
                   data |-> Document(PyList(<<Turn(PyStr("Candidate"), PyStr(""))>>))]],
     [name |-> "d.json",
      content |-> [kind |-> "json",
                   data |-> Document(PyList(<<PyStr("so"),
                                              Turn(PyStr("Candidate"), PyStr("Great."))>>))]],
     [name |-> "e.txt",
      content |-> [kind |-> "text",
                   lines |-> <<"Candidate: Great.", "", "Interviewer [00:01]: Bad.",
                               "so we try">>]],
     [name |-> "f.txt", content |-> [kind |-> "unreadable"]],
     [name |-> "notes.md", content |-> [kind |-> "text", lines |-> <<"so">>]]}

\* os.listdir(transcripts_dir) for a directory of some of the entries: they
\* come in any order, no name twice.
ListingsOf(entries) ==
    {l \in SeqsUpTo(entries, MaxFiles) :
        \A i, j \in 1..Len(l) : i # j => l[i].name # l[j].name}

\* The entries of a listing that satisfy a test, in order.
RECURSIVE FilesOf(_, _)
FilesOf(listing, suffixes) ==
    IF listing = <<>> THEN <<>>
    ELSE (IF \E x \in suffixes : EndsWith(Head(listing).name, x)
          THEN <<Head(listing)>> ELSE <<>>)
         \o FilesOf(Tail(listing), suffixes)

\* lines 109-124: a missing directory or one without transcript files
\* returns 1; else the loop starts.
CP_Start ==
    /\ p_pc = "start"
    /\ IF directory = PyNone
       THEN /\ written' = [code |-> 1]
            /\ p_pc' = "done"
            /\ UNCHANGED transcript_files
       ELSE /\ transcript_files' = FilesOf(directory.items, {".txt", ".json"})
            /\ IF transcript_files' = <<>>
               THEN written' = [code |-> 1] /\ p_pc' = "done"
               ELSE UNCHANGED written /\ p_pc' = "loop"
    /\ UNCHANGED <<rvars, svars, file, directory, file_no, results, p_raised,
                   analysis_file, sentiment_file, synthesis>>

\* os.path.basename of the file process_transcript analyzes, lines 40-50:
\* the JSON file beside a text file, else the file itself.
TranscriptName(entry) ==
    IF EndsWith(entry.name, ".txt")
    THEN SubSeq(entry.name, 1, Len(entry.name) - 4) \o ".json"
    ELSE entry.name

\* lines 127-128 and 29-54: the loop takes the next file; a text file is
\* converted (a failing conversion returns None, so the file gives no row);
\* then analyze_sentiment is called.  After the last file the loop ends.
CP_Next ==
    /\ p_pc = "loop"
    /\ IF file_no = Len(transcript_files)
       THEN /\ p_pc' = "write"
            /\ UNCHANGED <<rvars, svars, file, file_no>>
       ELSE LET entry == transcript_files[file_no + 1]
            IN  IF EndsWith(entry.name, ".txt") /\ entry.content.kind = "unreadable"
                THEN /\ file_no' = file_no + 1
                     /\ UNCHANGED <<rvars, svars, file, p_pc>>
                ELSE /\ file' = IF EndsWith(entry.name, ".txt")
                                THEN process_file(entry.content.lines)
                                ELSE entry.content
                     /\ p_pc' = "sentiment"
                     /\ s_pc' = "start"
                     /\ data' = PyNone
                     /\ candidate_name' = PyNone
                     /\ interviewer_name' = PyNone
                     /\ turn_index' = 0
                     /\ candidate_utterances' = <<>>
                     /\ interviewer_utterances' = <<>>
                     /\ candidate_sentiment' = PyNone
                     /\ interviewer_sentiment' = PyNone
                     /\ sentiment_results' = PyNone
                     /\ sentiment_summary' = PyNone
                     /\ s_raised' = ""
                     /\ printed' = <<>>
                     /\ pc' = "idle"
                     /\ transcript_data' = PyNone
                     /\ dialogue_entries' = PyNone
                     /\ entry_index' = 0
                     /\ transcript_text' = ""
                     /\ counts' = EmptyMap
                     /\ scores' = EmptyMap
                     /\ assessment' = EmptyMap
                     /\ pass_fail' = ""
                     /\ result' = PyNone
                     /\ raised' = ""
                     /\ UNCHANGED file_no
    /\ UNCHANGED <<directory, transcript_files, results, written, p_raised,
                   analysis_file, sentiment_file, synthesis>>

\* lines 54-57 and 93-97: analyze_sentiment returned nothing, or raised and
\* the exception is caught: the file gives no row.
CP_SentimentFailed ==
    /\ p_pc = "sentiment"
    /\ \/ s_pc = "raised"
       \/ s_pc = "returned" /\ ~Truthy(sentiment_results)
    /\ file_no' = file_no + 1
    /\ p_pc' = "loop"
    /\ UNCHANGED <<rvars, svars, file, directory, transcript_files, results,
                   written, p_raised, analysis_file, sentiment_file, synthesis>>

\* lines 59-63: after summarize_sentiment, analyze_transcript is called.
CP_Rubric ==
    /\ p_pc = "sentiment"
    /\ s_pc = "summarized"
    /\ p_pc' = "rubric"
    /\ pc' = "start"
    /\ UNCHANGED <<svars, file, transcript_data, dialogue_entries, entry_index,
                   transcript_text, counts, scores, assessment, pass_fail,
                   result, raised, directory, transcript_files, file_no,
                   results, written, p_raised, analysis_file, sentiment_file,
                   synthesis>>

ScoreField_FirstWord(criterion) == "score_" \o Lower(SubSeq(criterion, 1, 4))

\* criterion.replace(' ', '_')
ReplaceSpaces(s) ==
    LET Replaced[i \in 0..Len(s)] ==
            IF i = 0 THEN ""
            ELSE Replaced[i - 1] \o (IF SubSeq(s, i, i) = " " THEN "_" ELSE SubSeq(s, i, i))
    IN  Replaced[Len(s)]

\* f"score_{criterion.replace(' ', '_').lower()}", line 89.
ScoreField(criterion) ==
    "score_" \o Lower(ReplaceSpaces(criterion))

\* lines 88-89: the score columns of the first n criteria of scores added to
\* a row, a later criterion overwriting an earlier one of the same key.
RECURSIVE WithScores(_, _, _)
WithScores(row, s, n) ==
    IF n = 0 THEN row
    ELSE (ScoreField(CriteriaOrder[n]) :> s.map[CriteriaOrder[n]])
            @@ WithScores(row, s, n - 1)

\* combined_results, lines 69-89.
combined_results(transcript_name, transcript_results, summary) ==
    WithScores(
        [k \in {"transcript_name", "pass_fail"}
               \cup {r \o f : r \in {"candidate", "interviewer"},
                              f \in {"_sentiment", "_positive", "_negative",
                                     "_neutral", "_compound"}} |->
            CASE k = "transcript_name" -> PyStr(transcript_name)
              [] k = "pass_fail" -> transcript_results.map["pass_fail"]
              [] k = "candidate_sentiment" -> summary.map["candidate"].map["overall_sentiment"]
              [] k = "candidate_positive" -> summary.map["candidate"].map["positive_percentage"]
              [] k = "candidate_negative" -> summary.map["candidate"].map["negative_percentage"]
              [] k = "candidate_neutral" -> summary.map["candidate"].map["neutral_percentage"]
              [] k = "candidate_compound" -> summary.map["candidate"].map["compound_score"]
              [] k = "interviewer_sentiment" -> summary.map["interviewer"].map["overall_sentiment"]
              [] k = "interviewer_positive" -> summary.map["interviewer"].map["positive_percentage"]
              [] k = "interviewer_negative" -> summary.map["interviewer"].map["negative_percentage"]
              [] k = "interviewer_neutral" -> summary.map["interviewer"].map["neutral_percentage"]
              [] k = "interviewer_compound" -> summary.map["interviewer"].map["compound_score"]],
        transcript_results.map["scores"], Len(CriteriaOrder))

CP_Combine_Uncaught ==
    /\ p_pc = "rubric"
    /\ pc \in {"done", "raised"}
    /\ IF pc = "raised"
       THEN /\ p_raised' = raised
            /\ p_pc' = "raised"
            /\ UNCHANGED <<results, file_no>>
       ELSE /\ results' = IF "error" \in DOMAIN result.map THEN results
                          ELSE Append(results,
                                   combined_results(TranscriptName(transcript_files[file_no + 1]),
                                                    result, sentiment_summary))
            /\ file_no' = file_no + 1
            /\ p_pc' = "loop"
            /\ UNCHANGED p_raised
    /\ UNCHANGED <<rvars, svars, file, directory, transcript_files, written,
                   analysis_file, sentiment_file, synthesis>>

\* lines 63-97 and 129-130: analyze_transcript raised (caught at line 93) or
\* returned an error object: no row; else the combined row is appended.
CP_Combine ==
    /\ p_pc = "rubric"
    /\ pc \in {"done", "raised"}
    /\ results' =
          IF pc = "raised" \/ "error" \in DOMAIN result.map
          THEN results
          ELSE Append(results,
                      combined_results(TranscriptName(transcript_files[file_no + 1]),
                                       result, sentiment_summary))
    /\ file_no' = file_no + 1
    /\ p_pc' = "loop"
    /\ UNCHANGED <<rvars, svars, file, directory, transcript_files, written,
                   p_raised, analysis_file, sentiment_file, synthesis>>

\* The keys of all rows (the sorted header is this set).
Fieldnames(rows) == UNION {DOMAIN rows[i] : i \in 1..Len(rows)}

\* lines 133-155: the rows are written to the CSV file and 0 is returned; 1
\* is returned when there is no row or when writing fails.
CP_Write ==
    /\ p_pc = "write"
    /\ \E writable \in BOOLEAN :
          written' = IF results # <<>> /\ writable
                     THEN [code |-> 0, fieldnames |-> Fieldnames(results), rows |-> results]
                     ELSE [code |-> 1]
    /\ p_pc' = "done"
    /\ UNCHANGED <<rvars, svars, file, directory, transcript_files, file_no,
                   results, p_raised, analysis_file, sentiment_file, synthesis>>

\* process_all_transcripts on a directory, missing or listed.
InitCombined ==
    /\ file = [kind |-> "missing"]
    /\ pc = "idle"
    /\ RubricLocals
    /\ s_pc = "idle"
    /\ SentimentLocals
    /\ p_pc = "start"
    /\ directory \in {PyNone} \cup {PyList(l) : l \in ListingsOf(DirectoryEntries)}
    /\ transcript_files = <<>>
    /\ file_no = 0
    /\ results = <<>>
    /\ written = PyNone
    /\ p_raised = ""
    /\ analysis_file = PyNone
    /\ sentiment_file = PyNone
    /\ synthesis = PyNone

NextCombined ==
    \/ CP_Start
    \/ CP_Next
    \/ AS_Load
    \/ AS_Validate
    \/ AS_Turn
    \/ AS_CandidateAverage
    \/ AS_InterviewerAverage
    \/ AS_Return
    \/ SummarizeSentiment
    \/ CP_SentimentFailed
    \/ CP_Rubric
    \/ AT_Load
    \/ AT_Extract
    \/ AT_Concat
    \/ AT_CheckText
    \/ AT_Assess
    \/ AT_PassFail
    \/ AT_Return
    \/ CP_Combine
    \/ CP_Write

\* The program always takes its next step.
SpecCombined == InitCombined /\ [][NextCombined]_vars /\ WF_vars(NextCombined)

-----------------------------------------------------------------------------
(* transcript_pipeline.process_all_transcripts *)

\* The files a directory of text transcripts can hold: a transcript, an
\* unreadable file, a file of another type, and text files whose whole text
\* is the name of a JSON transcript of the working directory (one that
\* scores, one whose sentiment analysis raises, one whose scoring raises).
PipelineEntries ==
    {e \in DirectoryEntries : e.name \in {"e.txt", "f.txt", "notes.md"}}
    \cup {[name |-> "p.txt", content |-> [kind |-> "text", lines |-> <<"a.json">>]],
          [name |-> "q.txt", content |-> [kind |-> "text", lines |-> <<"c.json">>]],
          [name |-> "r.txt", content |-> [kind |-> "text", lines |-> <<"d.json">>]]}

\* file.read(), line 30: the lines of the file, each line but the last
\* ended by a line feed.
RECURSIVE ReadText(_)
ReadText(lines) ==
    IF lines = <<>> THEN ""
    ELSE IF Len(lines) = 1 THEN lines[1]
    ELSE Head(lines) \o "\n" \o ReadText(Tail(lines))

\* The file open(path) finds: a JSON transcript of the working directory
\* when path is its name, else none.
FileAt(path) ==
    IF \E e \in DirectoryEntries : e.name = path /\ e.content.kind = "json"
    THEN (CHOOSE e \in DirectoryEntries : e.name = path).content
    ELSE [kind |-> "missing"]

\* lines 58-70: a missing directory or one without .txt files returns; else
\* the loop starts.
TP_Start ==
    /\ p_pc = "start"
    /\ IF directory = PyNone
       THEN /\ p_pc' = "done"
            /\ UNCHANGED transcript_files
       ELSE /\ transcript_files' = FilesOf(directory.items, {".txt"})
            /\ p_pc' = IF transcript_files' = <<>> THEN "done" ELSE "loop"
    /\ UNCHANGED <<rvars, svars, file, directory, file_no, results, written,
                   p_raised, analysis_file, sentiment_file, synthesis>>

\* lines 73-75 and 28-35: the loop takes the next file and reads its text (an
\* unreadable file raises); analyze_sentiment is called with the text as the
\* path of its transcript file.  After the last file the loop ends.
TP_Next ==
    /\ p_pc = "loop"
    /\ IF file_no = Len(transcript_files)
       THEN /\ p_pc' = "write"
            /\ UNCHANGED <<rvars, svars, file, p_raised>>
       ELSE LET entry == transcript_files[file_no + 1]
            IN  IF entry.content.kind = "unreadable"
                THEN /\ p_raised' = "UnicodeDecodeError"
                     /\ p_pc' = "raised"
                     /\ UNCHANGED <<rvars, svars, file>>
                ELSE /\ file' = FileAt(ReadText(entry.content.lines))
                     /\ p_pc' = "sentiment"
                     /\ s_pc' = "start"
                     /\ data' = PyNone
                     /\ candidate_name' = PyNone
                     /\ interviewer_name' = PyNone
                     /\ turn_index' = 0
                     /\ candidate_utterances' = <<>>
                     /\ interviewer_utterances' = <<>>
                     /\ candidate_sentiment' = PyNone
                     /\ interviewer_sentiment' = PyNone
                     /\ sentiment_results' = PyNone
                     /\ sentiment_summary' = PyNone
                     /\ s_raised' = ""
                     /\ printed' = <<>>
                     /\ pc' = "idle"
                     /\ transcript_data' = PyNone
                     /\ dialogue_entries' = PyNone
                     /\ entry_index' = 0
                     /\ transcript_text' = ""
                     /\ counts' = EmptyMap
                     /\ scores' = EmptyMap
                     /\ assessment' = EmptyMap
                     /\ pass_fail' = ""
                     /\ result' = PyNone
                     /\ raised' = ""
                     /\ UNCHANGED p_raised
    /\ UNCHANGED <<directory, transcript_files, file_no, results, written,
                   analysis_file, sentiment_file, synthesis>>

\* lines 35-38: analyze_sentiment has returned, and analyze_transcript is
\* called with the same text; an exception of analyze_sentiment leaves the
\* batch.
TP_Rubric ==
    /\ p_pc = "sentiment"
    /\ s_pc \in {"returned", "raised"}
    /\ IF s_pc = "raised"
       THEN /\ p_raised' = s_raised
            /\ p_pc' = "raised"
            /\ UNCHANGED pc
       ELSE /\ p_pc' = "rubric"
            /\ pc' = "start"
            /\ UNCHANGED p_raised
    /\ UNCHANGED <<svars, file, transcript_data, dialogue_entries, entry_index,
                   transcript_text, counts, scores, assessment, pass_fail,
                   result, raised, directory, transcript_files, file_no,
                   results, written, analysis_file, sentiment_file, synthesis>>

\* lines 41-47 and 75: the row is the name and the keys of the sentiment
\* result and of the analysis result, a later key replacing an earlier one;
\* unpacking a sentiment result of None is a TypeError, and it and an
\* exception of analyze_transcript leave the batch.
TP_Combine ==
    /\ p_pc = "rubric"
    /\ pc \in {"done", "raised"}
    /\ IF pc = "raised" \/ sentiment_results = PyNone
       THEN /\ p_raised' = IF pc = "raised" THEN raised ELSE "TypeError"
            /\ p_pc' = "raised"
            /\ UNCHANGED <<results, file_no>>
       ELSE /\ results' = Append(results,
                              result.map @@ sentiment_results.map
                                @@ ("transcript_name" :>
                                        PyStr(transcript_files[file_no + 1].name)))
            /\ file_no' = file_no + 1
            /\ p_pc' = "loop"
            /\ UNCHANGED p_raised
    /\ UNCHANGED <<rvars, svars, file, directory, transcript_files, written,
                   analysis_file, sentiment_file, synthesis>>

\* lines 78-93: the rows are written to the CSV file; a failure to write
\* leaves the function as an exception.
TP_Write ==
    /\ p_pc = "write"
    /\ IF results # <<>>
       THEN \E writable \in BOOLEAN :
               IF writable
               THEN /\ written' = [fieldnames |-> Fieldnames(results), rows |-> results]
                    /\ p_pc' = "done"
                    /\ UNCHANGED p_raised
               ELSE /\ p_raised' = "OSError"
                    /\ p_pc' = "raised"
                    /\ UNCHANGED written
       ELSE /\ p_pc' = "done"
            /\ UNCHANGED <<written, p_raised>>
    /\ UNCHANGED <<rvars, svars, file, directory, transcript_files, file_no,
                   results, analysis_file, sentiment_file, synthesis>>

\* process_all_transcripts on a directory, missing or listed.
InitPipeline ==
    /\ file = [kind |-> "missing"]
    /\ pc = "idle"
    /\ RubricLocals
    /\ s_pc = "idle"
    /\ SentimentLocals
    /\ p_pc = "start"
    /\ directory \in {PyNone} \cup {PyList(l) : l \in ListingsOf(PipelineEntries)}
    /\ transcript_files = <<>>
    /\ file_no = 0
    /\ results = <<>>
    /\ written = PyNone
    /\ p_raised = ""
    /\ analysis_file = PyNone
    /\ sentiment_file = PyNone
    /\ synthesis = PyNone

NextPipeline ==
    \/ TP_Start
    \/ TP_Next
    \/ AS_Load
    \/ AS_Validate
    \/ AS_Turn
    \/ AS_CandidateAverage
    \/ AS_InterviewerAverage
    \/ AS_Return
    \/ TP_Rubric
    \/ AT_Load
    \/ AT_Extract
    \/ AT_Concat
    \/ AT_CheckText
    \/ AT_Assess
    \/ AT_PassFail
    \/ AT_Return
    \/ TP_Combine
    \/ TP_Write

SpecPipeline == InitPipeline /\ [][NextPipeline]_vars

-----------------------------------------------------------------------------
(* analyze_transcript called twice *)

\* Transcript files for two calls: files whose turns differ (in number, in
\* speaker, in the keys they carry) while their dialogues concatenate to the
\* same text, files with other texts, files that are another file with one
\* more turn, and files that end in an error object or in an exception.
RepeatFiles ==
    {[kind |-> "missing"], [kind |-> "malformed"]}
    \cup {[kind |-> "json", data |-> Document(t)] : t \in
            {PyNone, PyList(<<>>),
             PyList(<<Turn(PyStr("Candidate"), PyInt(5))>>),
             PyList(<<Turn(PyStr("Candidate"), PyStr("so")),
                      Turn(PyStr("Candidate"), PyStr("if it works"))>>),
             PyList(<<Turn(PyStr("Candidate"), PyStr("so if it works"))>>),
             PyList(<<Turn(PyStr("Interviewer"), PyStr("so if it works"))>>),
             PyList(<<Single("dialogue", PyStr("so if it works"))>>),
             PyList(<<Turn(PyStr("Candidate"), PyStr("so")),
                      Single("speaker", PyStr("Candidate")),
                      Turn(PyStr("Candidate"), PyStr("if it works"))>>),
             PyList(<<Turn(PyStr("Candidate"), PyStr(PassingDialogue))>>),
             PyList(<<Turn(PyStr("Candidate"), PyStr("Maybe we just TRY it"))>>),
             PyList(<<Turn(PyStr("Candidate"), PyStr(PassingDialogue)),
                      Turn(PyStr("Candidate"), PyStr("array stack"))>>),
             PyList(<<Turn(PyStr("Candidate"), PyStr(PassingDialogue)),
                      Turn(PyStr("Candidate"), PyStr("Maybe we just TRY it"))>>),
             PyList(<<Turn(PyStr("Candidate"), PyStr("so"))>>)}}

\* The first call has ended, by return or by exception: its file and its
\* outcome are kept, and analyze_transcript is called again, on any file,
\* with fresh locals.
AT_CallAgain ==
    /\ p_pc = "first"
    /\ pc \in {"done", "raised"}
    /\ results' = <<[file |-> file, result |-> result, raised |-> raised]>>
    /\ file' \in RepeatFiles
    /\ p_pc' = "second"
    /\ pc' = "start"
    /\ transcript_data' = PyNone
    /\ dialogue_entries' = PyNone
    /\ entry_index' = 0
    /\ transcript_text' = ""
    /\ counts' = EmptyMap
    /\ scores' = EmptyMap
    /\ assessment' = EmptyMap
    /\ pass_fail' = ""
    /\ result' = PyNone
    /\ raised' = ""
    /\ UNCHANGED <<svars, directory, transcript_files, file_no, written,
                   p_raised, analysis_file, sentiment_file, synthesis>>

\* Two calls of analyze_transcript, one after the other.
InitRepeat ==
    /\ file \in RepeatFiles
    /\ RubricStart
    /\ SentimentStart
    /\ p_pc = "first"
    /\ CallerLocals

NextRepeat ==
    \/ AT_Load
    \/ AT_Extract
    \/ AT_Concat
    \/ AT_CheckText
    \/ AT_Assess
    \/ AT_PassFail
    \/ AT_Return
    \/ AT_CallAgain

SpecRepeat == InitRepeat /\ [][NextRepeat]_vars

-----------------------------------------------------------------------------
(* analyze_transcript on transcripts of well-formed turns *)

\* Two utterances of an interview: a clarifying question, and the choice of
\* a data structure with its justification.
ClarifyUtterance == "I want to clarify: so if the input is empty, what happens?"
HashmapUtterance == "Let's say we use a hashmap because it gives O(1) lookup"

\* A dialogue made of the sixteen thought-process keywords.
ThinkingAloud ==
    "because so therefore reasoning thinking my approach is my idea is plan is step next then first second initially now after that"

\* Well-formed turns of both speakers: the clarifying utterance, the hashmap
\* utterance followed by one more data structure, a dialogue that passes, a
\* dialogue with a guessing keyword inside a longer word, and a multi-word
\* keyword cut in two.
ScoreTurns ==
    {Turn(PyStr("Candidate"), PyStr(d)) : d \in
        {ClarifyUtterance,
         HashmapUtterance \o ", an array would be slower.",
         PassingDialogue,
         ThinkingAloud,
         "the entry is wrong because of a bug",
         "so"}}
    \cup {Turn(PyStr("Interviewer"), PyStr("if it works"))}

ScoreFiles ==
    {[kind |-> "json", data |-> Document(PyList(t))] :
        t \in SeqsUpTo(ScoreTurns, MaxTurns)}

\* analyze_transcript on one file of well-formed turns.
InitScore ==
    /\ file \in ScoreFiles
    /\ RubricStart
    /\ SentimentStart
    /\ NoCaller

NextScore ==
    \/ AT_Load
    \/ AT_Extract
    \/ AT_Concat
    \/ AT_CheckText
    \/ AT_Assess
    \/ AT_PassFail
    \/ AT_Return

SpecScore == InitScore /\ [][NextScore]_vars

-----------------------------------------------------------------------------
(* analyze_sentiment_script.main *)

\* The path given on the command line: a JSON file, so that the conversion
\* of lines 27-34 is not entered.
ScriptInput == "interview_transcript.json"

\* str(n) for a natural number n.
RECURSIVE NatString(_)
NatString(n) ==
    IF n < 10 THEN SubSeq("0123456789", n + 1, n + 1)
    ELSE NatString(n \div 10) \o SubSeq("0123456789", (n % 10) + 1, (n % 10) + 1)

\* The integer nearest to n / d for n >= 0, a tie going to the even one.
RoundHalfEven(n, d) ==
    LET q == n \div d
        r == n % d
    IN  IF 2 * r > d \/ (2 * r = d /\ q % 2 = 1) THEN q + 1 ELSE q

\* format(x, ".1f") and format(x, ".2f") of a float x: `digits` decimals.
FixedPoint(x, digits) ==
    LET unit == IF digits = 1 THEN 10 ELSE 100
        scaled == RoundHalfEven(Abs(x.num) * unit, x.den)
        decimals == NatString(scaled % unit)
    IN  (IF x.num < 0 THEN "-" ELSE "")
            \o NatString(scaled \div unit) \o "."
            \o (IF Len(decimals) < digits THEN "0" ELSE "") \o decimals

\* The lines of lines 59-63 and 65-69 for one role, each with the value it
\* formats and the number of decimals asked for (0: no format specification).
RoleLines(label, summary) ==
    <<[text |-> label \o " sentiment: ", value |-> summary.map["overall_sentiment"], digits |-> 0],
      [text |-> "  - Positive: ", value |-> summary.map["positive_percentage"], digits |-> 1],
      [text |-> "  - Negative: ", value |-> summary.map["negative_percentage"], digits |-> 1],
      [text |-> "  - Neutral: ", value |-> summary.map["neutral_percentage"], digits |-> 1],
      [text |-> "  - Compound score: ", value |-> summary.map["compound_score"], digits |-> 2]>>

\* One f-string: None with a format specification is a TypeError
\* (NoneType.__format__ accepts none), a float is written in fixed point.
Formatted(line) ==
    IF line.digits = 0
    THEN [raises |-> "", text |-> line.text \o line.value.s]
    ELSE IF line.value.type # "float"
    THEN [raises |-> "TypeError", text |-> ""]
    ELSE [raises |-> "",
          text |-> line.text \o FixedPoint(line.value, line.digits)
                     \o (IF line.digits = 1 THEN "%" ELSE "")]

\* The lines printed before the first f-string that raises, and what it
\* raised.
RECURSIVE PrintAll(_, _)
PrintAll(lines, out) ==
    IF lines = <<>> THEN [raises |-> "", printed |-> out]
    ELSE LET f == Formatted(Head(lines))
         IN  IF f.raises # "" THEN [raises |-> f.raises, printed |-> out]
             ELSE PrintAll(Tail(lines), Append(out, f.text))

\* lines 36-38: the script announces the file and calls analyze_sentiment.
Main_Analyze ==
    /\ p_pc = "main"
    /\ s_pc = "idle"
    /\ printed' = Append(printed, "Analyzing sentiment in " \o ScriptInput \o "...")
    /\ s_pc' = "start"
    /\ p_pc' = "analyzing"
    /\ UNCHANGED <<rvars, file, data, candidate_name, interviewer_name,
                   turn_index, candidate_utterances, interviewer_utterances,
                   candidate_sentiment, interviewer_sentiment,
                   sentiment_results, sentiment_summary, s_raised,
                   directory, transcript_files, file_no, results, written,
                   p_raised, analysis_file, sentiment_file, synthesis>>

\* An exception of analyze_sentiment leaves main, which catches nothing.
Main_Propagate ==
    /\ p_pc = "analyzing"
    /\ s_pc = "raised"
    /\ p_raised' = s_raised
    /\ p_pc' = "raised"
    /\ UNCHANGED <<rvars, svars, file, directory, transcript_files, file_no,
                   results, written, analysis_file, sentiment_file, synthesis>>

\* lines 44-55, after summarize_sentiment: output_data is written to the
\* output file.
Main_Write ==
    /\ p_pc = "analyzing"
    /\ s_pc = "summarized"
    /\ written' =
          Single("sentiment_analysis",
              PyDict([k \in {"file", "candidate_sentiment", "interviewer_sentiment"} |->
                  CASE k = "file" -> PyStr(ScriptInput)
                    [] k = "candidate_sentiment" -> sentiment_summary.map["candidate"]
                    [] k = "interviewer_sentiment" -> sentiment_summary.map["interviewer"]]))
    /\ p_pc' = "written"
    /\ UNCHANGED <<rvars, svars, file, directory, transcript_files, file_no,
                   results, p_raised, analysis_file, sentiment_file, synthesis>>

\* lines 57-71: the summary on the console.
Main_Print ==
    /\ p_pc = "written"
    /\ LET r == PrintAll(
                    RoleLines("Candidate", sentiment_summary.map["candidate"])
                        \o RoleLines("\nInterviewer", sentiment_summary.map["interviewer"]),
                    Append(printed, "\nSentiment Analysis Results:"))
       IN  IF r.raises # ""
           THEN /\ printed' = r.printed
                /\ p_raised' = r.raises
                /\ p_pc' = "raised"
           ELSE /\ printed' = Append(r.printed, "\nFull results saved to sentiment_results.json")
                /\ p_pc' = "ended"
                /\ UNCHANGED p_raised
    /\ UNCHANGED <<rvars, file, s_pc, data, candidate_name, interviewer_name,
                   turn_index, candidate_utterances, interviewer_utterances,
                   candidate_sentiment, interviewer_sentiment,
                   sentiment_results, sentiment_summary, s_raised,
                   directory, transcript_files, file_no, results, written,
                   analysis_file, sentiment_file, synthesis>>

\* lines 72-73: analyze_sentiment returned None.
Main_Failed ==
    /\ p_pc = "analyzing"
    /\ s_pc = "returned"
    /\ ~Truthy(sentiment_results)
    /\ printed' = Append(printed, "Sentiment analysis failed. Check the error messages above.")
    /\ p_pc' = "ended"
    /\ UNCHANGED <<rvars, file, s_pc, data, candidate_name, interviewer_name,
                   turn_index, candidate_utterances, interviewer_utterances,
                   candidate_sentiment, interviewer_sentiment,
                   sentiment_results, sentiment_summary, s_raised,
                   directory, transcript_files, file_no, results, written,
                   p_raised, analysis_file, sentiment_file, synthesis>>

\* The script on one JSON file.
InitScript ==
    /\ file \in SentimentFiles
    /\ RubricStart
    /\ s_pc = "idle"
    /\ SentimentLocals
    /\ p_pc = "main"
    /\ CallerLocals

NextScript ==
    \/ Main_Analyze
    \/ AS_Load
    \/ AS_Validate
    \/ AS_Turn
    \/ AS_CandidateAverage
    \/ AS_InterviewerAverage
    \/ AS_Return
    \/ SummarizeSentiment
    \/ Main_Propagate
    \/ Main_Write
    \/ Main_Print
    \/ Main_Failed

SpecScript == InitScript /\ [][NextScript]_vars

-----------------------------------------------------------------------------
(* Properties of analyze_transcript *)

NoTextError == ErrorResult("No transcript text found in the JSON file.")

\* analyze_transcript has returned a result that is not an error object.
NonError == pc = "done" /\ "error" \notin DOMAIN result.map

ResultScores == result.map["scores"].map
ResultDetails == result.map["assessment_details"].map
ResultPassFail == result.map["pass_fail"].s

IsNumeric(v) == v.type = "int"
NA == PyStr("N/A")

\* The set of the keywords of a list.
KeywordSet(keywords) == {keywords[i] : i \in 1..Len(keywords)}

\* Some keyword of the list occurs in the text, ignoring case.
Mentions(text, keywords) ==
    \E k \in KeywordSet(keywords) : Contains(Lower(text), k)

\* C1: in every non-error result pass_fail is "Fail" exactly when some
\* criterion score is the number 1 or 2; when every numeric score is 3 or 4
\* the verdict is "Pass", whatever the number of "N/A" entries.
C1_PassFailIffLowScore ==
    NonError =>
        /\ ResultPassFail \in {"Pass", "Fail"}
        /\ ResultPassFail = "Fail" <=>
              \E k \in DOMAIN ResultScores :
                  IsNumeric(ResultScores[k]) /\ ResultScores[k].n \in {1, 2}
        /\ (\A k \in DOMAIN ResultScores :
                IsNumeric(ResultScores[k]) => ResultScores[k].n \in {3, 4})
              => ResultPassFail = "Pass"

\* A "Pass" result that carries "N/A" entries beside its numeric scores.
C1_Witness ==
    /\ NonError
    /\ ResultPassFail = "Pass"
    /\ \E k \in DOMAIN ResultScores : ResultScores[k] = NA
    /\ \E k \in DOMAIN ResultScores : IsNumeric(ResultScores[k])

\* C2: whenever the text contains a guessing keyword the debugging criterion
\* scores exactly 1, whatever the debugging and effective-debugging counts:
\* in every assessed transcript, and for every combination of the three
\* counts the keyword lists allow.
C2_GuessingForcesLowest ==
    /\ (pc \in {"verdict", "return"} /\ Mentions(transcript_text, guessing_keywords))
          => scores[DebuggingCriterion] = PyInt(1)
    /\ pc = "verdict" =>
          \A d \in 0..Len(debugging_keywords),
             e \in 0..Len(effective_debugging_keywords),
             g \in 1..Len(guessing_keywords) :
                AssessDebugging([debugging_count |-> d,
                                 effective_debugging_count |-> e,
                                 guessing_count |-> g]).score = PyInt(1)

\* A guessing keyword beside debugging signal that would otherwise score 4.
C2_Witness ==
    /\ pc = "return"
    /\ Mentions(transcript_text, guessing_keywords)
    /\ counts.debugging_count >= 2
    /\ counts.effective_debugging_count >= 1
    /\ scores[DebuggingCriterion] = PyInt(1)

\* C3: with s = data-structure matches + approach matches and j =
\* justification matches, the selection criterion scores 4 iff s >= 2 and
\* j >= 1, 3 iff s = 1 and j >= 1, 2 iff s >= 1 and j = 0, 1 iff s = 0; with
\* j = 0 the score never exceeds 2.
C3_ConjunctiveRule ==
    pc \in {"verdict", "return"} =>
        LET s == counts.ds_mention_count + counts.approach_mention_count
            j == counts.justification_count
            v == scores[SelectsCriterion]
        IN  /\ v = PyInt(4) <=> (s >= 2 /\ j >= 1)
            /\ v = PyInt(3) <=> (s = 1 /\ j >= 1)
            /\ v = PyInt(2) <=> (s >= 1 /\ j = 0)
            /\ v = PyInt(1) <=> s = 0
            /\ j = 0 => (IsNumeric(v) /\ v.n <= 2)

\* Several structure mentions and no justification: the score is capped at 2.
C3_Witness ==
    /\ pc = "return"
    /\ counts.ds_mention_count + counts.approach_mention_count >= 2
    /\ counts.justification_count = 0
    /\ scores[SelectsCriterion] = PyInt(2)

\* C4: in every non-error result the vocal-volume, tone/body-language and
\* whiteboard/comments criteria score "N/A", also when the text contains
\* their words.
C4_FixedNotApplicable ==
    NonError =>
        /\ ResultScores[VolumeCriterion] = NA
        /\ ResultScores[ToneCriterion] = NA
        /\ ResultScores[WhiteboardCriterion] = NA

\* A scored transcript whose text names volume, tone, body language,
\* whiteboard and comments.
C4_Witness ==
    /\ NonError
    /\ \A w \in {"volume", "tone", "body language", "whiteboard", "comments"} :
          Contains(Lower(transcript_text), w)
    /\ ResultScores[ToneCriterion] = NA

NumericCriteria(s) == {k \in DOMAIN s : IsNumeric(s[k]) /\ s[k].n \in 1..4}
NACriteria(s) == {k \in DOMAIN s : s[k] = NA}

\* C5 as stated: fourteen criteria scored with a number, three fixed at
\* "N/A", seventeen in all.
C5_FourteenAndThree ==
    NonError =>
        /\ Cardinality(NumericCriteria(ResultScores)) = 14
        /\ Cardinality(NACriteria(ResultScores)) = 3
        /\ Cardinality(DOMAIN ResultScores) = 17

\* C5 (amended): every non-error result holds sixteen criteria: eleven scored
\* with a number in 1..4 and five fixed at "N/A" (indentation, descriptive
\* names, vocal volume, tone/body language, whiteboard/comments).
C5_ElevenAndFive ==
    NonError =>
        /\ Cardinality(NumericCriteria(ResultScores)) = 11
        /\ NACriteria(ResultScores) =
              {IndentationCriterion, NamesCriterion, VolumeCriterion,
               ToneCriterion, WhiteboardCriterion}
        /\ Cardinality(DOMAIN ResultScores) = 16

C5_Witness ==
    /\ NonError
    /\ Cardinality(DOMAIN ResultScores) = 16
    /\ \E k \in DOMAIN ResultScores : ResultScores[k] = PyInt(4)

\* The criteria analyze_transcript fixes at "N/A".
FixedCriteria ==
    {IndentationCriterion, NamesCriterion, VolumeCriterion, ToneCriterion,
     WhiteboardCriterion}

\* C6: the criteria scored "N/A" are the same for every input; a criterion
\* scored from keyword counts always gets a number in 1..4 (no defensive else
\* branch is taken, for the texts assessed and for every combination of
\* counts the keyword lists allow), and every criterion of scores has an
\* entry in assessment_details.
C6_NotApplicableIsFixed ==
    /\ NonError =>
          /\ NACriteria(ResultScores) = FixedCriteria
          /\ NumericCriteria(ResultScores) = DOMAIN ResultScores \ FixedCriteria
          /\ DOMAIN ResultDetails = DOMAIN ResultScores
    /\ pc = "verdict" =>
          /\ \A a \in 0..Len(clarifying_questions_keywords),
                b \in 0..Len(hints_incorporation_keywords) :
                  AssessClarifying([clarifying_questions_count |-> a,
                                    hints_incorporation_count |-> b]) # ElseNA
          /\ \A a \in 0..Len(data_structure_keywords),
                b \in 0..Len(approach_selection_keywords),
                j \in 0..Len(justification_keywords) :
                  AssessSelects([ds_mention_count |-> a,
                                 approach_mention_count |-> b,
                                 justification_count |-> j]) # ElseNA
          /\ \A a \in 0..Len(code_description_keywords),
                b \in 0..Len(clarity_keywords) :
                  AssessWritesCode([code_description_count |-> a,
                                    clarity_count |-> b]) # ElseNA
          /\ \A d \in 0..Len(debugging_keywords),
                e \in 0..Len(effective_debugging_keywords),
                g \in 0..Len(guessing_keywords) :
                  AssessDebugging([debugging_count |-> d,
                                   effective_debugging_count |-> e,
                                   guessing_count |-> g]) # ElseNA
          /\ \A n \in 0..Len(thought_process_keywords) :
                /\ AssessAssumptions([assumption_questions_count |-> n]) # ElseNA
                /\ AssessExamples([example_count |-> n]) # ElseNA
                /\ AssessApproaches([approach_count |-> n]) # ElseNA
                /\ AssessComplexity([complexity_count |-> n]) # ElseNA
                /\ AssessTests([testing_count |-> n]) # ElseNA
                /\ AssessEdgeCases([edge_case_count |-> n]) # ElseNA
                /\ AssessThoughtProcess([thought_process_count |-> n]) # ElseNA

\* A result for a text with debugging and guessing keywords, the case the
\* last tested branch of the debugging criterion catches.
C6_Witness ==
    /\ NonError
    /\ counts.debugging_count >= 1
    /\ counts.guessing_count >= 1
    /\ DebuggingCriterion \in DOMAIN ResultDetails
    /\ ResultScores[DebuggingCriterion] = PyInt(1)

\* The upper-case letter of every lower-case letter.
UpperOf ==
    [a |-> "A", b |-> "B", c |-> "C", d |-> "D", e |-> "E", f |-> "F",
     g |-> "G", h |-> "H", i |-> "I", j |-> "J", k |-> "K", l |-> "L",
     m |-> "M", n |-> "N", o |-> "O", p |-> "P", q |-> "Q", r |-> "R",
     s |-> "S", t |-> "T", u |-> "U", v |-> "V", w |-> "W", x |-> "X",
     y |-> "Y", z |-> "Z"]

UpperChar(c) == IF c \in DOMAIN UpperOf THEN UpperOf[c] ELSE c

RECURSIVE UpperRange(_, _, _)
UpperRange(s, i, j) ==
    IF i > j THEN ""
    ELSE IF i = j THEN UpperChar(SubSeq(s, i, i))
    ELSE LET mid == (i + j) \div 2
         IN  UpperRange(s, i, mid) \o UpperRange(s, mid + 1, j)

\* The text with every letter in upper case.
Upper(s) == UpperRange(s, 1, Len(s))

\* The number of distinct keywords of a list that occur in a lower-cased text.
DistinctIn(keywords, lowered) ==
    Cardinality({k \in KeywordSet(keywords) : Contains(lowered, k)})

\* The number of places where k occurs in s.
Occurrences(s, k) ==
    Cardinality({i \in 1..(Len(s) - Len(k) + 1) : SubSeq(s, i, i + Len(k) - 1) = k})

\* C7: every keyword count is the number of distinct keywords of its list
\* that occur as a substring of the lower-cased text (however often each
\* occurs, and also inside a longer word), and the scores and the verdict of
\* the text are those of the same text written in upper case.
C7_DistinctCaseInsensitiveCounts ==
    pc = "return" =>
        LET lowered == Lower(transcript_text)
            shouted == KeywordCounts(Upper(transcript_text))
        IN  /\ counts.clarifying_questions_count = DistinctIn(clarifying_questions_keywords, lowered)
            /\ counts.hints_incorporation_count = DistinctIn(hints_incorporation_keywords, lowered)
            /\ counts.assumption_questions_count = DistinctIn(assumption_keywords, lowered)
            /\ counts.example_count = DistinctIn(example_keywords, lowered)
            /\ counts.approach_count = DistinctIn(approach_keywords, lowered)
            /\ counts.complexity_count = DistinctIn(complexity_keywords, lowered)
            /\ counts.ds_mention_count = DistinctIn(data_structure_keywords, lowered)
            /\ counts.approach_mention_count = DistinctIn(approach_selection_keywords, lowered)
            /\ counts.justification_count = DistinctIn(justification_keywords, lowered)
            /\ counts.code_description_count = DistinctIn(code_description_keywords, lowered)
            /\ counts.clarity_count = DistinctIn(clarity_keywords, lowered)
            /\ counts.testing_count = DistinctIn(testing_keywords, lowered)
            /\ counts.debugging_count = DistinctIn(debugging_keywords, lowered)
            /\ counts.effective_debugging_count = DistinctIn(effective_debugging_keywords, lowered)
            /\ counts.guessing_count = DistinctIn(guessing_keywords, lowered)
            /\ counts.edge_case_count = DistinctIn(edge_case_keywords, lowered)
            /\ counts.thought_process_count = DistinctIn(thought_process_keywords, lowered)
            /\ scores = ScoresOf(shouted)
            /\ pass_fail = PassFailOf(ScoresOf(shouted))

\* A text in mixed case where the keyword "try" occurs twice, once in upper
\* case and once only inside the longer word "entry", and counts once.
C7_Witness ==
    /\ pc = "return"
    /\ Occurrences(Lower(transcript_text), "try") = 2
    /\ Contains(transcript_text, "TRY")
    /\ Contains(transcript_text, "entry")
    /\ ~Contains(transcript_text, " try")
    /\ counts.guessing_count = 2
    /\ counts.testing_count = 1

\* The extracted text is empty or holds nothing but spaces.
IsBlank(text) == \A i \in 1..Len(text) : SubSeq(text, i, i) = " "

\* C8: a transcript whose extracted text is empty or whitespace only (no
\* turns, or every dialogue empty or blank) returns the no-text error and no
\* scores.
C8_BlankTextIsError ==
    (pc = "done" /\ file.kind = "json" /\ IsBlank(transcript_text))
        => result = NoTextError

\* C9: analyze_transcript never raises: whatever the file holds, it returns
\* a complete result or an error object.
C9_NeverRaises ==
    /\ raised = ""
    /\ pc # "raised"
    /\ pc = "done" =>
          \/ "error" \in DOMAIN result.map
          \/ DOMAIN result.map = {"scores", "assessment_details", "pass_fail"}

-----------------------------------------------------------------------------
(* Properties of analyze_sentiment and summarize_sentiment *)

\* A mapping with a string speaker and a string dialogue.
WellFormedTurn(t) ==
    /\ t.type = "dict"
    /\ DOMAIN t.map = {"speaker", "dialogue"}
    /\ t.map["speaker"].type = "str"
    /\ t.map["dialogue"].type = "str"

\* The file holds a valid transcript: the document passes the format check,
\* the names it gives are strings and the transcript is a non-empty list of
\* well-formed turns.
ValidTranscript ==
    /\ file.kind = "json"
    /\ ~InvalidFormat(file.data)
    /\ \A k \in {"candidate", "interviewer"} \cap DOMAIN file.data.map["interview"].map :
          file.data.map["interview"].map[k].type = "str"
    /\ TranscriptOf(file.data) # <<>>
    /\ \A i \in 1..Len(TranscriptOf(file.data)) :
          WellFormedTurn(TranscriptOf(file.data)[i])

\* The name of a role in the file: interview.<role>, else the default.
RoleName(role) ==
    DictGet(file.data.map["interview"], role,
            IF role = "candidate" THEN PyStr("Candidate") ELSE PyStr("Interviewer")).s

\* The turns of the file attributed to a role: those whose speaker is the
\* role's name ignoring case (the candidate's name is tried first).
TurnsOf(role) ==
    {i \in 1..Len(TranscriptOf(file.data)) :
        LET speaker == Lower(TranscriptOf(file.data)[i].map["speaker"].s)
        IN  IF role = "candidate"
            THEN speaker = Lower(RoleName("candidate"))
            ELSE /\ speaker # Lower(RoleName("candidate"))
                 /\ speaker = Lower(RoleName("interviewer"))}

OtherRole(role) == IF role = "candidate" THEN "interviewer" ELSE "candidate"

\* analyze_sentiment, and summarize_sentiment after it, have ended.
SentimentEnded ==
    \/ s_pc \in {"summarized", "raised"}
    \/ s_pc = "returned" /\ sentiment_results = PyNone

\* C10: for every valid transcript in which a role has no attributed
\* utterance, analyze_sentiment returns null for that role,
\* summarize_sentiment reports null (not zero) for its three percentages and
\* its compound score, and the other role's aggregate is still computed.
C10_AbsentRoleIsNull ==
    \A role \in {"candidate", "interviewer"} :
        (SentimentEnded /\ ValidTranscript /\ TurnsOf(role) = {}) =>
            /\ s_pc = "summarized"
            /\ sentiment_results.map[role] = PyNone
            /\ \A k \in {"positive_percentage", "negative_percentage",
                         "neutral_percentage", "compound_score"} :
                  sentiment_summary.map[role].map[k] = PyNone
            /\ TurnsOf(OtherRole(role)) # {} =>
                  sentiment_results.map[OtherRole(role)] # PyNone

\* A valid transcript without candidate turns whose interviewer turns hold
\* sentences: the candidate is null and the interviewer is aggregated.
C10_NullBesideAggregate ==
    /\ s_pc = "summarized"
    /\ ValidTranscript
    /\ TurnsOf("candidate") = {}
    /\ sentiment_results.map["candidate"] = PyNone
    /\ sentiment_summary.map["candidate"].map["compound_score"] = PyNone
    /\ sentiment_results.map["interviewer"] # PyNone

\* The dialogue of the i-th turn of the file.
DialogueOf(i) == TranscriptOf(file.data)[i].map["dialogue"].s

\* No turn attributed to the role holds a sentence.
SpeaksNoSentence(role) ==
    \A i \in TurnsOf(role) : sent_tokenize(DialogueOf(i)) = <<>>

\* C11: when a role has utterances but none of them holds a sentence (every
\* dialogue empty or blank), the aggregation does not fail and the role's
\* aggregate is null.
C11_NoSentenceIsNull ==
    \A role \in {"candidate", "interviewer"} :
        (/\ SentimentEnded
         /\ ValidTranscript
         /\ TurnsOf(role) # {}
         /\ SpeaksNoSentence(role)) =>
            /\ s_raised = ""
            /\ s_pc = "summarized"
            /\ sentiment_results.map[role] = PyNone

\* The label summarize_sentiment gave a role, and the role's mean compound
\* score as a fraction num / den with den > 0.
LabelOf(role) == sentiment_summary.map[role].map["overall_sentiment"].s
CompoundOf(role) == sentiment_results.map[role].map["compound"]

\* C12: the label is a three-way partition of the mean compound score c with
\* inclusive boundaries: c >= 1/20 gives the positive label, c <= -1/20 the
\* negative label, anything strictly between gives "Neutral".
C12_ThreeWayPartition ==
    s_pc = "summarized" =>
        \A role \in {"candidate", "interviewer"} :
            sentiment_results.map[role] # PyNone =>
                LET c == CompoundOf(role)
                IN  /\ LabelOf(role) \in {"Generally positive", "Generally negative", "Neutral"}
                    /\ LabelOf(role) = "Generally positive" <=> 20 * c.num >= c.den
                    /\ LabelOf(role) = "Generally negative" <=> 20 * c.num <= -c.den
                    /\ LabelOf(role) = "Neutral" <=>
                          (20 * c.num < c.den /\ 20 * c.num > -c.den)

\* A candidate exactly on the positive threshold beside an interviewer
\* exactly on the negative one.
C12_Witness ==
    /\ s_pc = "summarized"
    /\ sentiment_results.map["candidate"] # PyNone
    /\ sentiment_results.map["interviewer"] # PyNone
    /\ CompoundOf("candidate") = [type |-> "float", num |-> 1, den |-> 20]
    /\ CompoundOf("interviewer") = [type |-> "float", num |-> -1, den |-> 20]
    /\ LabelOf("candidate") = "Generally positive"
    /\ LabelOf("interviewer") = "Generally negative"

-----------------------------------------------------------------------------
(* Properties of the synthesis step *)

\* The labels the synthesis step compares against, lines 81 and 83.
MatchedLabels == {"Positive", "Negative", "Neutral"}

\* The aggregate of a role is positive (>= 1/20) or negative (<= -1/20).
PositiveRole(role) ==
    /\ sentiment_results.map[role] # PyNone
    /\ 20 * CompoundOf(role).num >= CompoundOf(role).den

NegativeRole(role) ==
    /\ sentiment_results.map[role] # PyNone
    /\ 20 * CompoundOf(role).num <= -CompoundOf(role).den

\* C13: every label summarize_sentiment emits for a non-null aggregate is one
\* of the labels the synthesis step compares against, so that a negative
\* aggregate selects the "pay attention" sentence and two positive
\* aggregates select the "keep up the good work" sentence.
C13_LabelsAreMatched ==
    /\ s_pc \in {"summarized", "exited"} /\ sentiment_summary # PyNone =>
          \A role \in {"candidate", "interviewer"} :
              sentiment_results.map[role] # PyNone => LabelOf(role) \in MatchedLabels
    /\ p_pc = "synthesized" /\ synthesis # PyNone =>
          /\ (NegativeRole("candidate") \/ NegativeRole("interviewer")) =>
                synthesis.sentiment_advice = "pay attention"
          /\ (PositiveRole("candidate") /\ PositiveRole("interviewer")) =>
                synthesis.sentiment_advice = "keep up the good work"

\* What the code does with two positive aggregates: no sentiment-based
\* sentence is appended.
C13_PositiveSelectsNothing ==
    /\ p_pc = "synthesized"
    /\ synthesis # PyNone
    /\ PositiveRole("candidate")
    /\ PositiveRole("interviewer")
    /\ synthesis.sentiment_intro = <<PyStr("Generally positive"), PyStr("Generally positive")>>
    /\ synthesis.sentiment_advice = ""

-----------------------------------------------------------------------------
(* More properties of analyze_sentiment *)

\* The polarity_scores key behind each of the four means.
PolarityKey(k) ==
    CASE k = "compound" -> "compound"
      [] k = "positive" -> "pos"
      [] k = "negative" -> "neg"
      [] k = "neutral" -> "neu"

\* The score of the j-th sentence of the u-th utterance.
SentenceScore(utterances, u, j, k) ==
    polarity_scores(cleaned_sentence(sent_tokenize(utterances[u].s)[j]))[PolarityKey(k)]

\* The sentences of all utterances, as pairs <<utterance, sentence>>.
SentencesOf(utterances) ==
    UNION {{<<u, j>> : j \in 1..Len(sent_tokenize(utterances[u].s))} :
              u \in 1..Len(utterances)}

RECURSIVE TotalOver(_, _, _)
TotalOver(pairs, utterances, k) ==
    IF pairs = {} THEN 0
    ELSE LET p == CHOOSE x \in pairs : TRUE
         IN  SentenceScore(utterances, p[1], p[2], k)
                + TotalOver(pairs \ {p}, utterances, k)

\* aggregate is the flat mean over the sentences of the utterances.
IsFlatMean(aggregate, utterances) ==
    LET pairs == SentencesOf(utterances)
    IN  \A k \in {"compound", "positive", "negative", "neutral"} :
            /\ aggregate.map[k].den > 0
            /\ aggregate.map[k].num * Cardinality(pairs) * 10000
                  = TotalOver(pairs, utterances, k) * aggregate.map[k].den

\* C14: each of the four means of a role is the sum of the score over every
\* sentence of every utterance of the role divided by the number of those
\* sentences: a flat mean over sentences, not a mean of per-utterance means.
C14_FlatMeanOverSentences ==
    /\ (s_pc \in {"interviewer", "return", "returned", "summarized"}
            /\ candidate_sentiment # PyNone) =>
          IsFlatMean(candidate_sentiment, candidate_utterances)
    /\ (s_pc \in {"return", "returned", "summarized"}
            /\ interviewer_sentiment # PyNone) =>
          IsFlatMean(interviewer_sentiment, interviewer_utterances)

\* A candidate with a one-sentence and a two-sentence utterance: the mean of
\* the three compound scores is (6249 - 5423 + 4404) / 30000 = 523 / 3000,
\* where the mean of the two utterance means would be 11479 / 40000.
C14_Witness ==
    /\ s_pc = "returned"
    /\ candidate_utterances = <<PyStr("Great."), PyStr("Bad. Good.")>>
    /\ sentiment_results # PyNone
    /\ sentiment_results.map["candidate"].map["compound"]
          = [type |-> "float", num |-> 523, den |-> 3000]

\* The loop over the turns has ended without an exception.
TurnsVisited ==
    \/ s_pc \in {"interviewer", "return", "summarized"}
    \/ s_pc = "returned" /\ sentiment_results # PyNone
    \/ s_pc = "turns" /\ turn_index = Len(TranscriptOf(data))

\* The i-th element of the transcript array is a mapping with a speaker and
\* a dialogue.
ValidTurnAt(i) ==
    /\ TranscriptOf(file.data)[i].type = "dict"
    /\ {"speaker", "dialogue"} \subseteq DOMAIN TranscriptOf(file.data)[i].map

\* The speaker of the i-th element is the name of the role, ignoring case.
SpokenBy(i, role) ==
    Upper(TranscriptOf(file.data)[i].map["speaker"].s) = Upper(RoleName(role))

\* The dialogues of the elements whose index is in S, in transcript order.
RECURSIVE DialoguesAt(_, _)
DialoguesAt(S, i) ==
    IF i > Len(TranscriptOf(file.data)) THEN <<>>
    ELSE (IF i \in S THEN <<TranscriptOf(file.data)[i].map["dialogue"]>> ELSE <<>>)
         \o DialoguesAt(S, i + 1)

\* The valid turns spoken by the role.
TurnsSpokenBy(role) ==
    {i \in 1..Len(TranscriptOf(file.data)) : ValidTurnAt(i) /\ SpokenBy(i, role)}

\* C15 as stated: each list is the in-order subsequence of the dialogues of
\* the valid turns whose speaker equals that role's name ignoring case, and
\* no turn is in both lists.
C15_AttributionByName ==
    TurnsVisited =>
        /\ candidate_utterances = DialoguesAt(TurnsSpokenBy("candidate"), 1)
        /\ interviewer_utterances = DialoguesAt(TurnsSpokenBy("interviewer"), 1)
        /\ Len(candidate_utterances) + Len(interviewer_utterances)
              = Cardinality(TurnsSpokenBy("candidate") \cup TurnsSpokenBy("interviewer"))

\* C15, amended: the candidate list is the in-order subsequence of the
\* dialogues of the valid turns whose speaker equals the candidate name
\* ignoring case; the interviewer list is that of the valid turns whose
\* speaker equals the interviewer name and not the candidate name; the names
\* are interview.candidate / interview.interviewer, else "Candidate" /
\* "Interviewer"; a turn matching neither name is in neither list and no turn
\* is in both.
C15_AttributionCandidateFirst ==
    TurnsVisited =>
        /\ candidate_utterances = DialoguesAt(TurnsSpokenBy("candidate"), 1)
        /\ interviewer_utterances =
              DialoguesAt(TurnsSpokenBy("interviewer") \ TurnsSpokenBy("candidate"), 1)
        /\ Len(candidate_utterances) + Len(interviewer_utterances)
              = Cardinality(TurnsSpokenBy("candidate") \cup TurnsSpokenBy("interviewer"))

\* A transcript naming its candidate "Alice": the turn of "alice" went to the
\* candidate list and the turn of "INTERVIEWER" to the interviewer list.
C15_Witness ==
    /\ TurnsVisited
    /\ candidate_name = PyStr("Alice")
    /\ interviewer_name = PyStr("Interviewer")
    /\ TranscriptOf(data) = <<Turn(PyStr("INTERVIEWER"), PyStr("Great.")),
                              Turn(PyStr("alice"), PyStr("Bad. Good."))>>
    /\ candidate_utterances = <<PyStr("Bad. Good.")>>
    /\ interviewer_utterances = <<PyStr("Great.")>>

\* An element of the transcript array fails validation: it is not a mapping,
\* or its speaker or its dialogue is missing or null.
FailsValidation(t) ==
    \/ t.type # "dict"
    \/ DictGet(t, "speaker", PyNone) = PyNone
    \/ DictGet(t, "dialogue", PyNone) = PyNone

\* A well-formed turn whose dialogue holds a sentence.
SoundTurn(t) ==
    /\ WellFormedTurn(t)
    /\ sent_tokenize(t.map["dialogue"].s) # <<>>

\* The file holds a transcript with elements that fail validation, and
\* nothing else is wrong with it.
OnlyBadTurns ==
    /\ file.kind = "json"
    /\ ~InvalidFormat(file.data)
    /\ \A k \in {"candidate", "interviewer"} \cap DOMAIN file.data.map["interview"].map :
          file.data.map["interview"].map[k].type = "str"
    /\ \E i \in 1..Len(TranscriptOf(file.data)) : FailsValidation(TranscriptOf(file.data)[i])
    /\ \A i \in 1..Len(TranscriptOf(file.data)) :
          FailsValidation(TranscriptOf(file.data)[i]) \/ SoundTurn(TranscriptOf(file.data)[i])

\* C16: an element that fails validation is skipped with a warning and the
\* later turns are still processed: analyze_sentiment does not raise, and it
\* warns once for every such element.
C16_BadTurnIsSkipped ==
    (SentimentEnded /\ OnlyBadTurns) =>
        /\ s_raised = ""
        /\ s_pc = "summarized"
        /\ Cardinality({n \in 1..Len(printed) : printed[n] = InvalidTurnLine})
              = Cardinality({i \in 1..Len(TranscriptOf(file.data)) :
                                FailsValidation(TranscriptOf(file.data)[i])})

\* What the code does for an element that is not a mapping or lacks a key:
\* a warning, and the next turn is aggregated.
C16_MissingKeyIsSkipped ==
    /\ s_pc = "summarized"
    /\ TranscriptOf(file.data) = <<Single("speaker", PyStr("Candidate")),
                                   Turn(PyStr("Candidate"), PyStr("Great."))>>
    /\ printed = <<InvalidTurnLine>>
    /\ sentiment_results.map["candidate"] # PyNone

\* Why ingestion failed, in the terms of the four causes.
Cause(d) ==
    CASE d.type # "dict" -> "not a mapping"
      [] d.type = "dict" /\ DictGet(d, "interview", PyNone).type # "dict" ->
            "missing interview"
      [] OTHER ->
            IF DictGet(d.map["interview"], "transcript", PyNone).type # "list"
            THEN "transcript not a list"
            ELSE IF TranscriptOf(d) = <<>> THEN "empty transcript"
            ELSE "none"

\* What lines 51-60 return and print for a document they reject.
RejectionOf(d) ==
    IF InvalidFormat(d) THEN <<PyNone, <<FormatErrorLine>>>>
    ELSE <<PyNone, <<NoTurnsLine>>>>

\* C17: the outcome of a failed ingestion identifies its cause: a document
\* that is not a mapping, one without the interview object, one whose
\* transcript is not a list and one whose transcript is empty all fail with
\* outcomes (returned value and message) that differ from one another.
C17_OutcomeIdentifiesCause ==
    (s_pc = "returned" /\ file.kind = "json" /\ Cause(file.data) # "none") =>
        /\ <<sentiment_results, printed>> = RejectionOf(file.data)
        /\ \A d \in SentimentDocuments :
              Cause(d) \notin {"none", Cause(file.data)} =>
                  RejectionOf(d) # <<sentiment_results, printed>>

\* What the code does: the empty transcript has a message of its own, the
\* three format causes share one.
C17_EmptyIsDistinguished ==
    /\ s_pc = "returned"
    /\ file.kind = "json"
    /\ Cause(file.data) = "empty transcript"
    /\ printed = <<NoTurnsLine>>
    /\ \A d \in SentimentDocuments :
          Cause(d) \notin {"none", "empty transcript"} =>
              RejectionOf(d) = <<PyNone, <<FormatErrorLine>>>>

-----------------------------------------------------------------------------
(* Properties of the combined batch *)

\* The file of the listing the loop is at.
CurrentFile == transcript_files[file_no + 1]

\* The file the loop is at has passed conversion, sentiment analysis and
\* rubric scoring: no exception, a sentiment result, no error object.
FileSucceeds ==
    /\ p_pc = "rubric"
    /\ s_pc = "summarized"
    /\ pc = "done"
    /\ "error" \notin DOMAIN result.map

\* One step of the batch: the loop moves on by one file at a time, the rows
\* change only when it moves on, and then by one row of that file if the
\* file succeeded and not at all if it failed.
BatchStep ==
    /\ file_no' \in {file_no, file_no + 1}
    /\ file_no' = file_no => results' = results
    /\ file_no' = file_no + 1 =>
          IF FileSucceeds
          THEN /\ Len(results') = Len(results) + 1
               /\ SubSeq(results', 1, Len(results)) = results
               /\ results'[Len(results')]["transcript_name"]
                     = PyStr(TranscriptName(CurrentFile))
          ELSE results' = results

\* C18: in process_all_transcripts of combined_analysis_pipeline every
\* transcript file of the listing is processed exactly once whatever happened
\* to earlier files: a file whose conversion, sentiment analysis or rubric
\* scoring fails, by error result or by exception, adds no row, a succeeding
\* file adds exactly one row, and the loop always reaches the CSV-writing
\* step, with every listed file behind it.
C18_BatchProcessesEveryFileOnce ==
    /\ [][BatchStep]_vars
    /\ [](p_pc = "write" =>
            /\ transcript_files = FilesOf(directory.items, {".txt", ".json"})
            /\ file_no = Len(transcript_files)
            /\ Len(results) <= file_no)
    /\ (p_pc = "loop") ~> (p_pc = "write")

\* A batch whose first file raised in sentiment analysis and whose second
\* file gave the only row has been written.
C18_Witness ==
    /\ p_pc = "done"
    /\ Len(transcript_files) = 2
    /\ transcript_files[1].name = "c.json"
    /\ transcript_files[2].name = "a.json"
    /\ Len(results) = 1
    /\ results[1]["transcript_name"] = PyStr("a.json")
    /\ written.code = 0

\* The last row of the batch is the one combined from the current locals.
RowIsCombined ==
    /\ p_pc = "loop"
    /\ pc = "done"
    /\ s_pc = "summarized"
    /\ results # <<>>

\* key is "score_" followed by the criterion's name in lower case with an
\* underscore for every space.
IsScoreKeyOf(key, criterion) ==
    /\ Len(key) = Len(criterion) + 6
    /\ SubSeq(key, 1, 6) = "score_"
    /\ \A i \in 1..Len(criterion) :
          LET c == SubSeq(criterion, i, i)
              k == SubSeq(key, i + 6, i + 6)
          IN  IF c = " " THEN k = "_"
              ELSE /\ k \notin DOMAIN LowerOf
                   /\ UpperChar(k) = UpperChar(c)

\* The summary fields and the row columns they are copied to.
SentimentColumns ==
    [overall_sentiment |-> "_sentiment", positive_percentage |-> "_positive",
     negative_percentage |-> "_negative", neutral_percentage |-> "_neutral",
     compound_score |-> "_compound"]

\* C20: the combiner's translation of field names loses nothing: every
\* criterion of the analysis result is in the combined row under "score_" +
\* its name lower-cased with underscores for spaces, with the same score;
\* distinct criteria have distinct keys; and pass_fail and the five sentiment
\* fields of both roles are copied unchanged, null staying null.
C20_TranslationLosesNothing ==
    RowIsCombined =>
        LET row == results[Len(results)]
            scored == result.map["scores"].map
        IN  /\ \A criterion \in DOMAIN scored :
                  \E key \in DOMAIN row :
                      /\ IsScoreKeyOf(key, criterion)
                      /\ row[key] = scored[criterion]
            /\ Cardinality({key \in DOMAIN row : Len(key) > 6 /\ SubSeq(key, 1, 6) = "score_"})
                  = Cardinality(DOMAIN scored)
            /\ row["pass_fail"] = result.map["pass_fail"]
            /\ \A role \in {"candidate", "interviewer"} :
               \A field \in DOMAIN SentimentColumns :
                  row[role \o SentimentColumns[field]]
                     = sentiment_summary.map[role].map[field]

\* A row combined from a passing result with scores 3, 4 and N/A, a scored
\* candidate and an interviewer without sentiment data.
C20_Witness ==
    /\ RowIsCombined
    /\ results[Len(results)]["pass_fail"] = PyStr("Pass")
    /\ {PyInt(3), PyInt(4), PyStr("N/A")}
          \subseteq {result.map["scores"].map[c] : c \in DOMAIN result.map["scores"].map}
    /\ results[Len(results)]["interviewer_positive"] = PyNone
    /\ results[Len(results)]["candidate_compound"].type = "float"
    /\ results[Len(results)]["score_verifies_assumptions"] \in {PyInt(3), PyInt(4)}

-----------------------------------------------------------------------------
(* Properties of the text-transcript batch *)

\* analyze_sentiment gave no result for the file the loop is at.
NoSentimentResult == s_pc = "returned" /\ sentiment_results = PyNone

\* C19: in process_all_transcripts of transcript_pipeline a transcript whose
\* sentiment analysis yields no result, or whose rubric scoring yields an
\* error object, is skipped and the remaining transcripts are processed and
\* written: a transcript without sentiment result never ends the batch.
C19_FailingTranscriptIsSkipped ==
    NoSentimentResult => p_pc # "raised"

-----------------------------------------------------------------------------
(* Properties of the rubric as a function of the text *)

\* The file holds a transcript array of mappings whose dialogues, where
\* present, are strings.
HasDialogueText(f) ==
    /\ f.kind = "json"
    /\ f.data.type = "dict"
    /\ "interview" \in DOMAIN f.data.map
    /\ f.data.map["interview"].type = "dict"
    /\ "transcript" \in DOMAIN f.data.map["interview"].map
    /\ f.data.map["interview"].map["transcript"].type = "list"
    /\ \A i \in 1..Len(f.data.map["interview"].map["transcript"].items) :
          LET t == f.data.map["interview"].map["transcript"].items[i]
          IN  /\ t.type = "dict"
              /\ "dialogue" \in DOMAIN t.map => t.map["dialogue"].type = "str"

\* The dialogues of the first n elements, each followed by one space.
RECURSIVE JoinedDialogue(_, _)
JoinedDialogue(items, n) ==
    IF n = 0 THEN ""
    ELSE JoinedDialogue(items, n - 1)
            \o (IF "dialogue" \in DOMAIN items[n].map THEN items[n].map["dialogue"].s ELSE "")
            \o " "

\* The concatenated dialogue text of a file.
DialogueTextOf(f) ==
    JoinedDialogue(f.data.map["interview"].map["transcript"].items,
                   Len(f.data.map["interview"].map["transcript"].items))

\* The second of two calls has ended.
SecondCallEnded == p_pc = "second" /\ pc \in {"done", "raised"}

\* C21: two runs of analyze_transcript on the same transcript content end
\* alike (same scores, same assessment_details, same pass_fail, or the same
\* error or exception), and two runs on transcripts with the same
\* concatenated dialogue text return identical results.
C21_SameTextSameResult ==
    SecondCallEnded =>
        /\ file = results[1].file =>
              /\ result = results[1].result
              /\ raised = results[1].raised
        /\ (/\ HasDialogueText(file)
            /\ HasDialogueText(results[1].file)
            /\ DialogueTextOf(file) = DialogueTextOf(results[1].file)) =>
              /\ pc = "done"
              /\ result = results[1].result

\* Two scored transcripts with different turns and the same dialogue text.
C21_Witness ==
    /\ SecondCallEnded
    /\ file # results[1].file
    /\ HasDialogueText(file)
    /\ HasDialogueText(results[1].file)
    /\ Len(file.data.map["interview"].map["transcript"].items)
          # Len(results[1].file.data.map["interview"].map["transcript"].items)
    /\ DialogueTextOf(file) = DialogueTextOf(results[1].file)
    /\ "scores" \in DOMAIN result.map
    /\ result = results[1].result


\* The text holds both utterances as they were spoken.
HoldsBothUtterances(text) ==
    /\ Occurrences(text, ClarifyUtterance) > 0
    /\ Occurrences(text, HashmapUtterance) > 0

\* The number of data-structure and approach keywords that occur in the text.
SelectionMentions(text) ==
    DistinctIn(data_structure_keywords, Lower(text))
        + DistinctIn(approach_selection_keywords, Lower(text))

\* C22: every result for a text that holds the clarifying utterance and the
\* hashmap utterance scores the clarifying criterion at least 2 and "Verifies
\* assumptions" at least 2, and scores the selection criterion 4 whenever at
\* least two data-structure or approach keywords occur in the whole text.
C22_UtterancesScore ==
    (NonError /\ HoldsBothUtterances(transcript_text)) =>
        /\ IsNumeric(ResultScores[ClarifyingCriterion])
        /\ ResultScores[ClarifyingCriterion].n >= 2
        /\ IsNumeric(ResultScores[AssumptionsCriterion])
        /\ ResultScores[AssumptionsCriterion].n >= 2
        /\ SelectionMentions(transcript_text) >= 2 =>
              ResultScores[SelectsCriterion] = PyInt(4)

\* The two utterances with exactly two data structures between them: the
\* selection criterion scores 4.
C22_Witness ==
    /\ NonError
    /\ HoldsBothUtterances(transcript_text)
    /\ SelectionMentions(transcript_text) = 2
    /\ ResultScores[SelectsCriterion] = PyInt(4)
    /\ ResultScores[ClarifyingCriterion].n >= 2
    /\ ResultScores[AssumptionsCriterion].n >= 2


\* The text of the elements that pass the turn validation of
\* analyze_sentiment, each dialogue followed by a space.
RECURSIVE IngestedText(_, _)
IngestedText(items, n) ==
    IF n = 0 THEN ""
    ELSE IngestedText(items, n - 1)
            \o (IF InvalidTurn(items[n]) \/ items[n].map["dialogue"].type # "str"
                THEN ""
                ELSE items[n].map["dialogue"].s \o " ")

\* C23: the text the rubric scores is the concatenation of the dialogues of
\* the elements that pass turn validation; an element with a dialogue but no
\* speaker adds nothing to it.
C23_OnlyIngestedTurnsAreScored ==
    (pc \in {"assess", "verdict", "return"} /\ dialogue_entries.type = "list") =>
        transcript_text = IngestedText(dialogue_entries.items, Len(dialogue_entries.items))


-----------------------------------------------------------------------------
(* Properties of analyze_sentiment_script.main *)

\* summarize_sentiment has run on a result in which one role has no
\* aggregate.
OneRoleIsNull ==
    /\ s_pc = "summarized"
    /\ \E role \in {"candidate", "interviewer"} : sentiment_results.map[role] = PyNone

\* C24: when one role has a null sentiment aggregate, main completes
\* normally: it writes the output file, prints the summary to its last line
\* and raises nothing.
C24_NullAggregateCompletes ==
    (OneRoleIsNull /\ p_pc \in {"ended", "raised"}) =>
        /\ p_pc = "ended"
        /\ p_raised = ""
        /\ written # PyNone
        /\ printed[Len(printed)] = "\nFull results saved to sentiment_results.json"


-----------------------------------------------------------------------------
(* The threshold tables *)

\* The table of five criteria: 1 for no keyword, 2 for one, 3 for two, 4 for
\* three or more.
StepTable(n) == IF n = 0 THEN 1 ELSE IF n = 1 THEN 2 ELSE IF n = 2 THEN 3 ELSE 4

\* The table of the complexity criterion.
ComplexityTable(n) == IF n = 0 THEN 1 ELSE IF n = 1 THEN 2 ELSE IF n \in 2..3 THEN 3 ELSE 4

\* The table of the thought-process criterion.
ThoughtTable(n) == IF n < 3 THEN 1 ELSE IF n \in 3..7 THEN 2 ELSE IF n \in 8..14 THEN 3 ELSE 4

\* C25: the score of each single-count criterion is the entry of its
\* threshold table for the distinct-keyword count: for the texts assessed,
\* and for every count the keyword lists allow.
C25_ThresholdTables ==
    pc \in {"verdict", "return"} =>
        /\ scores[AssumptionsCriterion] = PyInt(StepTable(counts.assumption_questions_count))
        /\ scores[ExamplesCriterion] = PyInt(StepTable(counts.example_count))
        /\ scores[ApproachesCriterion] = PyInt(StepTable(counts.approach_count))
        /\ scores[TestsCriterion] = PyInt(StepTable(counts.testing_count))
        /\ scores[EdgeCasesCriterion] = PyInt(StepTable(counts.edge_case_count))
        /\ scores[ComplexityCriterion] = PyInt(ComplexityTable(counts.complexity_count))
        /\ scores[ThoughtProcessCriterion] = PyInt(ThoughtTable(counts.thought_process_count))
        /\ \A n \in 0..Len(assumption_keywords) :
              AssessAssumptions([assumption_questions_count |-> n]).score = PyInt(StepTable(n))
        /\ \A n \in 0..Len(example_keywords) :
              AssessExamples([example_count |-> n]).score = PyInt(StepTable(n))
        /\ \A n \in 0..Len(approach_keywords) :
              AssessApproaches([approach_count |-> n]).score = PyInt(StepTable(n))
        /\ \A n \in 0..Len(testing_keywords) :
              AssessTests([testing_count |-> n]).score = PyInt(StepTable(n))
        /\ \A n \in 0..Len(edge_case_keywords) :
              AssessEdgeCases([edge_case_count |-> n]).score = PyInt(StepTable(n))
        /\ \A n \in 0..Len(complexity_keywords) :
              AssessComplexity([complexity_count |-> n]).score = PyInt(ComplexityTable(n))
        /\ \A n \in 0..Len(thought_process_keywords) :
              AssessThoughtProcess([thought_process_count |-> n]).score = PyInt(ThoughtTable(n))

\* A text with three complexity keywords, scored 3 where the other tables
\* give 4, with eight to fourteen thought-process keywords, and with three
\* or more assumption keywords.
C25_Witness ==
    /\ pc = "return"
    /\ counts.complexity_count = 3
    /\ scores[ComplexityCriterion] = PyInt(3)
    /\ counts.thought_process_count \in 8..14
    /\ scores[ThoughtProcessCriterion] = PyInt(3)
    /\ counts.assumption_questions_count >= 3
    /\ scores[AssumptionsCriterion] = PyInt(4)


\* C26: the clarifying criterion uses all four tiers: each of the scores 1,
\* 2, 3 and 4 is given to some pair of a clarifying-question count and a
\* hint-incorporation count that the keyword lists allow.
C26_AllFourTiers ==
    pc = "verdict" =>
        \A tier \in 1..4 :
            \E cq \in 0..Len(clarifying_questions_keywords),
               hi \in 0..Len(hints_incorporation_keywords) :
                AssessClarifying([clarifying_questions_count |-> cq,
                                  hints_incorporation_count |-> hi]).score = PyInt(tier)


\* The guessing keywords that occur somewhere in the text, ignoring case.
GuessesIn(text) ==
    LET lowered == Lower(text)
    IN  {k \in {"maybe", "perhaps", "guess", "try", "randomly", "just see what happens"} :
            \E i \in 1..(Len(lowered) - Len(k) + 1) :
                SubSeq(lowered, i, i + Len(k) - 1) = k}

\* C27: every result for a text in which a guessing keyword occurs, be it
\* inside a longer word, has the verdict "Fail"; a result with the verdict
\* "Pass" is for a text in which no guessing keyword occurs.
C27_GuessingAlwaysFails ==
    NonError =>
        /\ GuessesIn(transcript_text) # {} => ResultPassFail = "Fail"
        /\ ResultPassFail = "Pass" => GuessesIn(transcript_text) = {}

\* A text whose only guessing keyword is the "try" of "entry" and in which
\* every other scored criterion is rated 3 or 4: the verdict is "Fail".
C27_Witness ==
    /\ NonError
    /\ GuessesIn(transcript_text) = {"try"}
    /\ Occurrences(Lower(transcript_text), "try") = 1
    /\ Occurrences(transcript_text, "entry") = 1
    /\ \A k \in NumericCriteria(ResultScores) \ {DebuggingCriterion} :
          ResultScores[k].n >= 3
    /\ ResultScores[DebuggingCriterion] = PyInt(1)
    /\ ResultPassFail = "Fail"


-----------------------------------------------------------------------------
(* Appending turns *)

\* The transcript array of a file with dialogue text.
TranscriptItems(f) == f.data.map["interview"].map["transcript"].items

\* File g holds the turns of file f followed by at least one more turn.
Extends(f, g) ==
    /\ HasDialogueText(f)
    /\ HasDialogueText(g)
    /\ Len(TranscriptItems(f)) < Len(TranscriptItems(g))
    /\ SubSeq(TranscriptItems(g), 1, Len(TranscriptItems(f))) = TranscriptItems(f)

\* Both calls returned scores, the second for the transcript of the first
\* with turns appended.
ScoredBeforeAndAfter ==
    /\ SecondCallEnded
    /\ Extends(results[1].file, file)
    /\ results[1].raised = ""
    /\ "scores" \in DOMAIN results[1].result.map
    /\ NonError

\* No rule but the debugging one gives a lower score when one of its counts
\* grows by one, whatever the counts the keyword lists allow.
RulesNeverLower ==
    /\ \A a \in 0..Len(clarifying_questions_keywords),
          b \in 0..Len(hints_incorporation_keywords) :
            LET s(x, y) == AssessClarifying([clarifying_questions_count |-> x,
                                             hints_incorporation_count |-> y]).score.n
            IN  s(a, b) <= s(a + 1, b) /\ s(a, b) <= s(a, b + 1)
    /\ \A a \in 0..Len(data_structure_keywords),
          b \in 0..Len(approach_selection_keywords),
          j \in 0..Len(justification_keywords) :
            LET s(x, y, z) == AssessSelects([ds_mention_count |-> x,
                                             approach_mention_count |-> y,
                                             justification_count |-> z]).score.n
            IN  /\ s(a, b, j) <= s(a + 1, b, j)
                /\ s(a, b, j) <= s(a, b + 1, j)
                /\ s(a, b, j) <= s(a, b, j + 1)
    /\ \A a \in 0..Len(code_description_keywords),
          b \in 0..Len(clarity_keywords) :
            LET s(x, y) == AssessWritesCode([code_description_count |-> x,
                                             clarity_count |-> y]).score.n
            IN  s(a, b) <= s(a + 1, b) /\ s(a, b) <= s(a, b + 1)
    /\ \A n \in 0..Len(thought_process_keywords) :
            /\ AssessAssumptions([assumption_questions_count |-> n]).score.n
                  <= AssessAssumptions([assumption_questions_count |-> n + 1]).score.n
            /\ AssessExamples([example_count |-> n]).score.n
                  <= AssessExamples([example_count |-> n + 1]).score.n
            /\ AssessApproaches([approach_count |-> n]).score.n
                  <= AssessApproaches([approach_count |-> n + 1]).score.n
            /\ AssessComplexity([complexity_count |-> n]).score.n
                  <= AssessComplexity([complexity_count |-> n + 1]).score.n
            /\ AssessTests([testing_count |-> n]).score.n
                  <= AssessTests([testing_count |-> n + 1]).score.n
            /\ AssessEdgeCases([edge_case_count |-> n]).score.n
                  <= AssessEdgeCases([edge_case_count |-> n + 1]).score.n
            /\ AssessThoughtProcess([thought_process_count |-> n]).score.n
                  <= AssessThoughtProcess([thought_process_count |-> n + 1]).score.n

\* C28: appending turns to a scored transcript lowers the score of no
\* criterion but the debugging one, and turns "Pass" into "Fail" only when
\* the longer text holds a guessing keyword; no scoring rule but the
\* debugging one is lowered by a larger count.
C28_AppendingNeverLowers ==
    /\ ScoredBeforeAndAfter =>
          LET before == results[1].result.map["scores"].map
          IN  /\ DOMAIN ResultScores = DOMAIN before
              /\ \A k \in DOMAIN before \ {DebuggingCriterion} :
                    IF IsNumeric(before[k])
                    THEN IsNumeric(ResultScores[k]) /\ ResultScores[k].n >= before[k].n
                    ELSE ResultScores[k] = before[k]
              /\ (results[1].result.map["pass_fail"] = PyStr("Pass") /\ ResultPassFail = "Fail") =>
                    /\ GuessesIn(DialogueTextOf(file)) # {}
                    /\ GuessesIn(DialogueTextOf(results[1].file)) = {}
                    /\ ResultScores[DebuggingCriterion].n < before[DebuggingCriterion].n
    /\ SecondCallEnded => RulesNeverLower

\* A passing transcript fails once a turn with guessing keywords is appended:
\* only the debugging criterion is lower.
C28_Witness ==
    /\ ScoredBeforeAndAfter
    /\ results[1].result.map["pass_fail"] = PyStr("Pass")
    /\ ResultPassFail = "Fail"
    /\ ResultScores[DebuggingCriterion].n
          < results[1].result.map["scores"].map[DebuggingCriterion].n
    /\ \E k \in DOMAIN ResultScores :
          /\ IsNumeric(ResultScores[k])
          /\ ResultScores[k].n >= results[1].result.map["scores"].map[k].n


-----------------------------------------------------------------------------
(* Keywords across turns *)

\* The dialogues of the turns, in lower case.
LoweredDialogues(items) ==
    [i \in 1..Len(items) |-> Lower(items[i].map["dialogue"].s)]

\* Some of the lower-cased dialogues holds keyword k.
WithinATurn(k, lowered) ==
    \E i \in 1..Len(lowered) : Contains(lowered[i], k)

\* The words of keyword k before one of its spaces end a dialogue and the
\* words after that space begin the next one.
SplitAcrossTurns(k, lowered) ==
    \E i \in 1..(Len(lowered) - 1), p \in 2..(Len(k) - 1) :
        /\ SubSeq(k, p, p) = " "
        /\ Len(lowered[i]) >= p - 1
        /\ SubSeq(lowered[i], Len(lowered[i]) - p + 2, Len(lowered[i])) = SubSeq(k, 1, p - 1)
        /\ Len(lowered[i + 1]) >= Len(k) - p
        /\ SubSeq(lowered[i + 1], 1, Len(k) - p) = SubSeq(k, p + 1, Len(k))

\* Every keyword list with the count analyze_transcript keeps for it.
ListsAndCounts ==
    {<<clarifying_questions_keywords, counts.clarifying_questions_count>>,
     <<hints_incorporation_keywords, counts.hints_incorporation_count>>,
     <<assumption_keywords, counts.assumption_questions_count>>,
     <<example_keywords, counts.example_count>>,
     <<approach_keywords, counts.approach_count>>,
     <<complexity_keywords, counts.complexity_count>>,
     <<data_structure_keywords, counts.ds_mention_count>>,
     <<approach_selection_keywords, counts.approach_mention_count>>,
     <<justification_keywords, counts.justification_count>>,
     <<code_description_keywords, counts.code_description_count>>,
     <<clarity_keywords, counts.clarity_count>>,
     <<testing_keywords, counts.testing_count>>,
     <<debugging_keywords, counts.debugging_count>>,
     <<effective_debugging_keywords, counts.effective_debugging_count>>,
     <<guessing_keywords, counts.guessing_count>>,
     <<edge_case_keywords, counts.edge_case_count>>,
     <<thought_process_keywords, counts.thought_process_count>>}

\* C29: a keyword whose first words end one turn and whose other words begin
\* the next turn is counted like a keyword that a single turn holds: each
\* count is at least the number of keywords of its list found either way.
C29_KeywordsSpanTurns ==
    pc \in {"verdict", "return"} =>
        LET lowered == LoweredDialogues(dialogue_entries.items)
        IN  \A lc \in ListsAndCounts :
                lc[2] >= Cardinality({k \in KeywordSet(lc[1]) :
                                        \/ WithinATurn(k, lowered)
                                        \/ SplitAcrossTurns(k, lowered)})

\* "so" ends the candidate's turn and "if it works" begins the
\* interviewer's: no turn holds "so if", and it is the one clarifying keyword
\* counted.
C29_Witness ==
    /\ pc = "return"
    /\ Len(dialogue_entries.items) = 2
    /\ dialogue_entries.items[1].map["speaker"] # dialogue_entries.items[2].map["speaker"]
    /\ SplitAcrossTurns("so if", LoweredDialogues(dialogue_entries.items))
    /\ ~WithinATurn("so if", LoweredDialogues(dialogue_entries.items))
    /\ counts.clarifying_questions_count = 1
    /\ scores[ClarifyingCriterion] = PyInt(3)


-----------------------------------------------------------------------------
(* Strengths, weaknesses and the recommendation *)

\* The criteria listed in a sequence.
Listed(seq) == {seq[i] : i \in 1..Len(seq)}

\* C30: the synthesis lists every criterion with an integer score once, as a
\* strength when the score is 3 or more and as a weakness when it is 2 or
\* less, and lists no criterion scored "N/A"; the verdict it read is "Fail"
\* exactly when there is a weakness, a "Pass" gets the recommendation of an
\* exceptional pass, and the one of a standard pass is never chosen.
C30_PassIsAlwaysExceptional ==
    synthesis # PyNone =>
        /\ Len(synthesis.strengths) = Cardinality(Listed(synthesis.strengths))
        /\ Len(synthesis.weaknesses) = Cardinality(Listed(synthesis.weaknesses))
        /\ Listed(synthesis.strengths) \cap Listed(synthesis.weaknesses) = {}
        /\ \A c \in DOMAIN synthesis.scores.map :
              LET score == synthesis.scores.map[c]
              IN  /\ c \in Listed(synthesis.strengths) <=> (IsNumeric(score) /\ score.n >= 3)
                  /\ c \in Listed(synthesis.weaknesses) <=> (IsNumeric(score) /\ score.n <= 2)
        /\ Listed(synthesis.strengths) \cup Listed(synthesis.weaknesses)
              \subseteq DOMAIN synthesis.scores.map
        /\ synthesis.pass_fail \in {PyStr("Pass"), PyStr("Fail")}
        /\ synthesis.pass_fail = PyStr("Fail") <=> synthesis.weaknesses # <<>>
        /\ synthesis.pass_fail = PyStr("Pass") => synthesis.recommendation = "exceptional pass"
        /\ synthesis.recommendation # "standard pass"

\* A synthesis of a passing analysis: eleven strengths, no weakness, five
\* criteria in neither list, and the recommendation of an exceptional pass.
C30_Witness ==
    /\ synthesis # PyNone
    /\ synthesis.pass_fail = PyStr("Pass")
    /\ Len(synthesis.strengths) = 11
    /\ synthesis.weaknesses = <<>>
    /\ Cardinality(DOMAIN synthesis.scores.map) = 16
    /\ synthesis.recommendation = "exceptional pass"

=============================================================================
